---- MODULE Spec2Model ----
(***************************************************************************)
(* A model of the network change monitor (package netmon: Monitor,         *)
(* ChangeDelta, NewChangeDelta) and of the interface reachability prober   *)
(* (package netns), both in src/unnamed/part_002.                          *)
(***************************************************************************)
EXTENDS Integers, Sequences, FiniteSets, TLC

(***************************************************************************)
(* Bounds of the model.                                                    *)
(***************************************************************************)
\* Longest address list of one interface in a State.
MaxIPs == 2

(***************************************************************************)
(* netip.Addr and netip.Prefix.  An address is a number: 0 is the IPv4     *)
(* loopback 127.0.0.1, 1 a routable IPv4 address, 2 the IPv4 link-local    *)
(* multicast address 224.0.0.1, 3 a global IPv6 address.  The numbers are  *)
(* ordered as netip.Addr.Compare orders the addresses (IPv4 before IPv6,   *)
(* then by value).                                                         *)
(***************************************************************************)
Addrs == 0 .. 3

Is4(a) == a <= 2

Is6(a) == a = 3

IsLoopback(a) == a = 0

IsLinkLocalMulticast(a) == a = 2

\* The Prefix values of the model; the routable IPv4 address comes with two
\* prefix lengths.
Prefixes ==
    { [addr |-> 0, bits |-> 8], [addr |-> 1, bits |-> 24], [addr |-> 1, bits |-> 16],
      [addr |-> 2, bits |-> 24], [addr |-> 3, bits |-> 64] }

\* Addr.Compare as used by prefixesEqual's less function.
AddrCompare(x, y) == IF x < y THEN -1 ELSE IF x > y THEN 1 ELSE 0

isUsableV4(a) == Is4(a) /\ ~IsLoopback(a)

isUsableV6(a) == Is6(a) /\ ~IsLoopback(a)

filterRoutableIPsNoMulticastSkip(addrs) ==
    SelectSeq(addrs, LAMBDA pfx : isUsableV4(pfx.addr) \/ isUsableV6(pfx.addr))

filterRoutableIPs(addrs) ==
    SelectSeq(addrs, LAMBDA pfx :
        /\ ~IsLinkLocalMulticast(pfx.addr)
        /\ (isUsableV4(pfx.addr) \/ isUsableV6(pfx.addr)))

\* The inner loop of the insertion sort slices.SortFunc runs on a short slice:
\* the element p, placed after position j, moves left while it compares less
\* than its left neighbour.
RECURSIVE InsertPos(_, _, _)
InsertPos(s, p, j) ==
    IF j > 0 /\ AddrCompare(p.addr, s[j].addr) < 0 THEN InsertPos(s, p, j - 1) ELSE j

InsertByAddr(s, p) ==
    LET k == InsertPos(s, p, Len(s))
    IN  SubSeq(s, 1, k) \o <<p>> \o SubSeq(s, k + 1, Len(s))

RECURSIVE SortByAddr(_)
SortByAddr(s) ==
    IF Len(s) = 0 THEN <<>>
    ELSE InsertByAddr(SortByAddr(SubSeq(s, 1, Len(s) - 1)), s[Len(s)])

prefixesEqual(a, b) ==
    IF Len(a) # Len(b) THEN FALSE
    ELSE SortByAddr(a) = SortByAddr(b)

(***************************************************************************)
(* State, Interface and ChangeDelta.                                       *)
(***************************************************************************)
\* A *State that is nil.  A State is a record; nil is the record whose field
\* nil is TRUE.
NilState ==
    [nil |-> TRUE, Interface |-> <<>>, InterfaceIPs |-> <<>>,
     DefaultRouteInterface |-> "", HaveV4 |-> FALSE, HaveV6 |-> FALSE,
     IsExpensive |-> FALSE, PAC |-> "", HTTPProxy |-> ""]

\* Interface.Equal: all descriptive fields are compared.
InterfaceEqual(a, b) == a = b

\* State.Equal: full structural equality; two nil States are equal, a nil and
\* a non-nil State are not.
StateEqual(s, s2) == s = s2

\* m[key] of a Go map whose values are slices: nil (the empty slice) for a
\* missing key.
MapGet(m, key) == IF key \in DOMAIN m THEN m[key] ELSE <<>>

\* The global hook IsInterestingInterface holds "nil" or the name of a
\* predicate; the predicate "byName" rejects the interface named "eth0".
HookValues == {"nil", "byName"}

CallHook(hook, iface, ips) == IF hook = "byName" THEN iface.Name # "eth0" ELSE TRUE

\* The zero ChangeDelta with the four argument fields set (lines 129-134).
ChangeDeltaLiteral(old, new, timeJumped, tsIfName) ==
    [Old |-> old, New |-> new, TimeJumped |-> timeJumped,
     TailscaleIfaceName |-> tsIfName,
     DefaultInterfaceChanged |-> FALSE, IsLessExpensive |-> FALSE,
     HasPACOrProxyConfigChanged |-> FALSE, InterfaceIPsChanged |-> FALSE,
     AvailableProtocolsChanged |-> FALSE, RebindLikelyRequired |-> FALSE]

\* A first loop that took an interface missing in New for no change.
OldToNewChangedIgnoresRemoval(cd, hook) ==
    \E iname \in DOMAIN cd.Old.Interface :
        LET oldInterface == cd.Old.Interface[iname]
            oldIps == filterRoutableIPs(MapGet(cd.Old.InterfaceIPs, iname))
        IN  /\ iname # cd.TailscaleIfaceName
            /\ ~(hook # "nil" /\ ~CallHook(hook, oldInterface, oldIps))
            /\ Len(oldIps) # 0
            /\ iname \in DOMAIN cd.New.Interface
            /\ \/ iname \notin DOMAIN cd.New.InterfaceIPs
               \/ ~InterfaceEqual(oldInterface, cd.New.Interface[iname])
               \/ ~prefixesEqual(oldIps, filterRoutableIPs(cd.New.InterfaceIPs[iname]))

\* The first loop (lines 182-214): some interface of Old that is not the
\* Tailscale interface, is interesting and has a routable address is missing
\* in New or differs there.  The loop returns true at the first such
\* interface, whatever the iteration order of the map.
OldToNewChanged(cd, hook) ==
    \E iname \in DOMAIN cd.Old.Interface :
        LET oldInterface == cd.Old.Interface[iname]
            oldIps == filterRoutableIPs(MapGet(cd.Old.InterfaceIPs, iname))
        IN  /\ iname # cd.TailscaleIfaceName
            /\ ~(hook # "nil" /\ ~CallHook(hook, oldInterface, oldIps))
            /\ Len(oldIps) # 0
            /\ \/ iname \notin DOMAIN cd.New.Interface
               \/ iname \notin DOMAIN cd.New.InterfaceIPs
               \/ ~InterfaceEqual(oldInterface, cd.New.Interface[iname])
               \/ ~prefixesEqual(oldIps, filterRoutableIPs(cd.New.InterfaceIPs[iname]))

\* The second loop (lines 216-246), with the roles of Old and New exchanged.
NewToOldChangedNoTsSkip(cd, hook) ==
    \E iname \in DOMAIN cd.New.Interface :
        LET newInterface == cd.New.Interface[iname]
            newIps == filterRoutableIPs(MapGet(cd.New.InterfaceIPs, iname))
        IN  /\ ~(hook # "nil" /\ ~CallHook(hook, newInterface, newIps))
            /\ Len(newIps) # 0
            /\ \/ iname \notin DOMAIN cd.Old.Interface
               \/ iname \notin DOMAIN cd.Old.InterfaceIPs
               \/ ~InterfaceEqual(newInterface, cd.Old.Interface[iname])
               \/ ~prefixesEqual(filterRoutableIPs(cd.Old.InterfaceIPs[iname]), newIps)

NewToOldChangedOldUnfiltered(cd, hook) ==
    \E iname \in DOMAIN cd.New.Interface :
        LET newInterface == cd.New.Interface[iname]
            newIps == filterRoutableIPs(MapGet(cd.New.InterfaceIPs, iname))
        IN  /\ iname # cd.TailscaleIfaceName
            /\ ~(hook # "nil" /\ ~CallHook(hook, newInterface, newIps))
            /\ Len(newIps) # 0
            /\ \/ iname \notin DOMAIN cd.Old.Interface
               \/ iname \notin DOMAIN cd.Old.InterfaceIPs
               \/ ~InterfaceEqual(newInterface, cd.Old.Interface[iname])
               \/ ~prefixesEqual(cd.Old.InterfaceIPs[iname], newIps)

NewToOldChanged(cd, hook) ==
    \E iname \in DOMAIN cd.New.Interface :
        LET newInterface == cd.New.Interface[iname]
            newIps == filterRoutableIPs(MapGet(cd.New.InterfaceIPs, iname))
        IN  /\ iname # cd.TailscaleIfaceName
            /\ ~(hook # "nil" /\ ~CallHook(hook, newInterface, newIps))
            /\ Len(newIps) # 0
            /\ \/ iname \notin DOMAIN cd.Old.Interface
               \/ iname \notin DOMAIN cd.Old.InterfaceIPs
               \/ ~InterfaceEqual(newInterface, cd.Old.Interface[iname])
               \/ ~prefixesEqual(filterRoutableIPs(cd.Old.InterfaceIPs[iname]), newIps)

isInterestingIntefaceChange(cd, hook) ==
    IF cd.Old.nil \/ cd.New.nil THEN TRUE
    ELSE OldToNewChanged(cd, hook) \/ NewToOldChanged(cd, hook)

\* A NewChangeDelta that, without a baseline, reported a changed default
\* interface always and a changed proxy configuration only if New has one.
ComputedFlagsGuessingBaseline(cd, hook) ==
    IF cd.Old.nil
    THEN [cd EXCEPT !.DefaultInterfaceChanged = TRUE,
                    !.IsLessExpensive = FALSE,
                    !.HasPACOrProxyConfigChanged =
                        cd.New.PAC # "" \/ cd.New.HTTPProxy # "",
                    !.InterfaceIPsChanged = TRUE]
    ELSE [cd EXCEPT !.AvailableProtocolsChanged =
                        cd.Old.HaveV4 # cd.New.HaveV4 \/ cd.Old.HaveV6 # cd.New.HaveV6,
                    !.DefaultInterfaceChanged =
                        cd.Old.DefaultRouteInterface # cd.New.DefaultRouteInterface,
                    !.IsLessExpensive = cd.Old.IsExpensive /\ ~cd.New.IsExpensive,
                    !.HasPACOrProxyConfigChanged =
                        cd.Old.PAC # cd.New.PAC \/ cd.Old.HTTPProxy # cd.New.HTTPProxy,
                    !.InterfaceIPsChanged = isInterestingIntefaceChange(cd, hook)]

\* The flags of lines 136-149; for a nil New the function returns before any
\* flag is computed.
ComputedFlags(cd, hook) ==
    IF cd.Old.nil
    THEN [cd EXCEPT !.DefaultInterfaceChanged = cd.New.DefaultRouteInterface # "",
                    !.IsLessExpensive = FALSE,
                    !.HasPACOrProxyConfigChanged = TRUE,
                    !.InterfaceIPsChanged = TRUE]
    ELSE [cd EXCEPT !.AvailableProtocolsChanged =
                        cd.Old.HaveV4 # cd.New.HaveV4 \/ cd.Old.HaveV6 # cd.New.HaveV6,
                    !.DefaultInterfaceChanged =
                        cd.Old.DefaultRouteInterface # cd.New.DefaultRouteInterface,
                    !.IsLessExpensive = cd.Old.IsExpensive /\ ~cd.New.IsExpensive,
                    !.HasPACOrProxyConfigChanged =
                        cd.Old.PAC # cd.New.PAC \/ cd.Old.HTTPProxy # cd.New.HTTPProxy,
                    !.InterfaceIPsChanged = isInterestingIntefaceChange(cd, hook)]

\* A verdict that advised a rebind for every delta ("if in doubt, rebind").
RebindVerdictWhenInDoubt(cd) == TRUE

\* The aggregate verdict of lines 154-161.
RebindVerdict(cd) ==
    \/ cd.New.nil
    \/ cd.Old.nil
    \/ cd.TimeJumped
    \/ cd.DefaultInterfaceChanged
    \/ cd.InterfaceIPsChanged
    \/ cd.IsLessExpensive
    \/ cd.HasPACOrProxyConfigChanged
    \/ cd.AvailableProtocolsChanged

NewChangeDelta(old, new, timeJumped, tsIfName, hook) ==
    LET cd == ChangeDeltaLiteral(old, new, timeJumped, tsIfName)
    IN  IF cd.New.nil THEN cd
        ELSE LET cd2 == ComputedFlags(cd, hook)
             IN  [cd2 EXCEPT !.RebindLikelyRequired = RebindVerdict(cd2)]

(***************************************************************************)
(* The States the model draws from.                                        *)
(***************************************************************************)
IPLists == UNION { [1 .. k -> Prefixes] : k \in 0 .. MaxIPs }

\* What a State holds for one interface name: no entry at all, an Interface
\* without an entry in InterfaceIPs, or an Interface with an address list.
IfAbsent == [present |-> FALSE, mtu |-> 0, entry |-> FALSE, ips |-> <<>>]

IfWith(mtu, ips) == [present |-> TRUE, mtu |-> mtu, entry |-> TRUE, ips |-> ips]

Eth0Configs ==
    {IfAbsent, [present |-> TRUE, mtu |-> 1500, entry |-> FALSE, ips |-> <<>>],
     IfWith(1400, <<[addr |-> 1, bits |-> 24]>>),
     IfWith(1400, <<[addr |-> 2, bits |-> 24]>>)}
    \cup { IfWith(1500, l) : l \in IPLists }

Ts0Configs ==
    {IfAbsent, IfWith(1280, <<[addr |-> 1, bits |-> 24]>>),
     IfWith(1280, <<[addr |-> 3, bits |-> 64]>>)}

Scalars ==
    [DefaultRouteInterface : {"", "eth0", "wlan0"}, HaveV4 : BOOLEAN, HaveV6 : BOOLEAN,
     IsExpensive : BOOLEAN, PAC : {"", "http://wpad/wpad.dat"},
     HTTPProxy : {"", "proxy:3128"}]

BaseScalars ==
    [DefaultRouteInterface |-> "eth0", HaveV4 |-> TRUE, HaveV6 |-> FALSE,
     IsExpensive |-> FALSE, PAC |-> "", HTTPProxy |-> ""]

IfaceIndex(name) == IF name = "eth0" THEN 2 ELSE 7

MkState(sc, eth0, ts0) ==
    LET cfg == [n \in {"eth0", "ts0"} |-> IF n = "eth0" THEN eth0 ELSE ts0]
        names == { n \in {"eth0", "ts0"} : cfg[n].present }
    IN  [nil |-> FALSE,
         Interface |-> [n \in names |->
                          [Name |-> n, Index |-> IfaceIndex(n), MTU |-> cfg[n].mtu]],
         InterfaceIPs |-> [n \in { m \in names : cfg[m].entry } |-> cfg[n].ips],
         DefaultRouteInterface |-> sc.DefaultRouteInterface,
         HaveV4 |-> sc.HaveV4, HaveV6 |-> sc.HaveV6, IsExpensive |-> sc.IsExpensive,
         PAC |-> sc.PAC, HTTPProxy |-> sc.HTTPProxy]

\* States that differ in the scalar fields only.
ScalarStates ==
    { MkState(sc, IfWith(1500, <<[addr |-> 1, bits |-> 24]>>), IfAbsent) : sc \in Scalars }

\* States that differ in the interfaces only.
InterfaceStates ==
    { MkState(BaseScalars, e, t) : e \in Eth0Configs, t \in Ts0Configs }

TsIfNames == {"", "ts0"}

\* The States the Monitor's snapshots are drawn from: the default route is on
\* "eth0" in one and on "wlan0" in the other.
MonitorStates ==
    { MkState([BaseScalars EXCEPT !.DefaultRouteInterface = d],
              IfWith(1500, <<[addr |-> 1, bits |-> 24]>>), IfAbsent) :
        d \in {"eth0", "wlan0"} }

\* The first snapshot, taken by New or NewStatic.
InitialState ==
    MkState(BaseScalars, IfWith(1500, <<[addr |-> 1, bits |-> 24]>>), IfAbsent)

\* Most deltas the model lets the Monitor dispatch in one run.
MaxDispatch == 2

\* Most callbacks registered at a time.
MaxCallbacks == 2

Handles == 1 .. MaxCallbacks

\* The goroutines that call Close.
Closers == {"closer1", "closer2"}

\* The zero netip.Addr.
ZeroAddr == 0

\* The gateways the host can be behind; a value stands for the pair of the
\* gateway's address and the host's own.
Gateways == {1, 2}

\* What LikelyHomeRouterIP can return: a gateway and ok, or the zero values.
LikelyHomeRouterIP ==
    { [gw |-> g, ok |-> TRUE] : g \in Gateways } \cup { [gw |-> ZeroAddr, ok |-> FALSE] }

\* gwRet before the first GatewayAndSelfIP call.
NoGatewayCall == [call |-> "none", gw |-> ZeroAddr, ok |-> FALSE]

VARIABLES
    IsInterestingInterface, \* the global hook: "nil" or a predicate's name
    args,                   \* the arguments of the NewChangeDelta call
    called,                 \* whether NewChangeDelta was called
    cd,                     \* the ChangeDelta it returned
    static,                 \* Monitor.static
    shouldMonitorTimeJump,  \* the build constant of line 623
    tsIfName,               \* Monitor.tsIfName
    registrants,            \* the handles of the callbacks the callers register
    staticCalls,            \* the methods called on a static Monitor so far
    started,                \* Monitor.started
    closed,                 \* Monitor.closed
    stop,                   \* whether the channel Monitor.stop is closed
    omClosed,               \* whether the osMon is closed
    omCloseCalls,           \* how often osMon.Close was called
    change,                 \* the content of the channel Monitor.change (capacity 1)
    mu,                     \* the holder of Monitor.mu, or "free"
    cbs,                    \* the handles in Monitor.cbs
    ifState,                \* Monitor.ifState
    gwValid,                \* Monitor.gwValid
    gw,                     \* Monitor.gw and Monitor.gwSelfIP, as one value
    gwRet,                  \* what the last GatewayAndSelfIP call did and returned
    wallTimer,              \* Monitor.wallTimer: "nil", "armed", "fired" or "stopped"
    timersCreated,          \* how many timers Start created
    timeJumped,             \* Monitor.timeJumped
    wallGap,                \* whether wall time is more than 1.5 intervals past lastWall
    goroutines,             \* the counter of the WaitGroup Monitor.goroutines
    spawned,                \* how many pump and debounce goroutines Start spawned
    pumpPc,                 \* where the pump goroutine is
    dbPc,                   \* where the debounce goroutine is
    forceCallbacks,         \* debounce's local forceCallbacks
    newState,               \* debounce's local newState
    tasks,                  \* the callback goroutines spawned and not yet finished
    nDispatch,              \* how many deltas were dispatched
    lastDelta,              \* the delta dispatched last
    closePc,                \* where each Close call is
    closeRet,               \* what each Close call returned
    closeStarted,           \* each Close call's local started
    owed,                   \* the handles an InjectEvent call still owes an invocation
    netInterfaces,          \* what net.Interfaces returns
    filterf,                \* probeOpts.filterf: "nil" or a predicate's name
    sortf,                  \* probeOpts.sortf: "nil" or a sorter's name
    probePc,                \* where the findInterfaceThatCanReach call is
    tsiface,                \* the Index of probeInterfacesReachability's tsiface
    candidates,             \* probeInterfacesReachability's candidates
    resultsCap,             \* the capacity of the channel results
    results,                \* the content of the channel results
    dials,                  \* where the probe goroutine of each candidate is
    out,                    \* probeInterfacesReachability's out
    probeRet,               \* what probeInterfacesReachability returned
    hintRead,               \* defaultIfaceHintFn as line 914 found it
    findRet                 \* what findInterfaceThatCanReach returned

deltaVars == <<IsInterestingInterface, args, called, cd>>

configVars == <<static, shouldMonitorTimeJump, tsIfName, registrants>>

flagVars == <<configVars, staticCalls>>

lifeVars == <<started, closed, stop, omClosed, omCloseCalls, goroutines, spawned>>

timerVars == <<wallTimer, timersCreated, timeJumped, wallGap>>

pumpVars == <<pumpPc>>

dbVars == <<dbPc, forceCallbacks, newState>>

stateVars == <<ifState, gwValid, gw, gwRet>>

dispatchVars == <<tasks, nDispatch, lastDelta>>

closeVars == <<closePc, closeRet, closeStarted>>

monVars ==
    <<flagVars, lifeVars, timerVars, pumpVars, dbVars, stateVars, dispatchVars,
      closeVars, change, mu, cbs, owed>>

probeVars ==
    <<netInterfaces, filterf, sortf, probePc, tsiface, candidates, resultsCap,
      results, dials, out, probeRet, hintRead, findRet>>

\* What no step of a Monitor touches.
asideVars == <<deltaVars, probeVars>>

vars == <<deltaVars, monVars, probeVars>>

ArgPairs ==
    (ScalarStates \X ScalarStates)
    \cup (InterfaceStates \X InterfaceStates)
    \cup ({NilState} \X (InterfaceStates \cup ScalarStates \cup {NilState}))
    \cup ((InterfaceStates \cup ScalarStates) \X {NilState})

DeltaInit ==
    /\ IsInterestingInterface \in HookValues
    /\ \E pair \in ArgPairs, tj \in BOOLEAN, ts \in TsIfNames :
        args = [old |-> pair[1], new |-> pair[2], timeJumped |-> tj, tsIfName |-> ts]
    /\ called = FALSE
    /\ cd = ChangeDeltaLiteral(NilState, NilState, FALSE, "")

CallNewChangeDelta ==
    /\ ~called
    /\ called' = TRUE
    /\ cd' = NewChangeDelta(args.old, args.new, args.timeJumped, args.tsIfName,
                            IsInterestingInterface)
    /\ UNCHANGED <<IsInterestingInterface, args>>
    /\ UNCHANGED <<monVars, probeVars>>

DeltaNext == CallNewChangeDelta

(***************************************************************************)
(* The Monitor.                                                            *)
(***************************************************************************)
DeltaIdle ==
    /\ IsInterestingInterface = "nil"
    /\ args = [old |-> NilState, new |-> NilState, timeJumped |-> FALSE, tsIfName |-> ""]
    /\ called = FALSE
    /\ cd = ChangeDeltaLiteral(NilState, NilState, FALSE, "")

\* New (lines 270-295) and NewStatic (lines 300-306), when they succeed.  New
\* fails unless the first snapshot succeeds; NewStatic keeps a nil State when
\* it fails.
MonInit ==
    /\ static \in BOOLEAN
    /\ shouldMonitorTimeJump \in BOOLEAN
    /\ tsIfName = ""
    /\ registrants \in {{1}, Handles}
    /\ staticCalls = {}
    /\ started = FALSE
    /\ closed = FALSE
    /\ stop = FALSE
    /\ omClosed = FALSE
    /\ omCloseCalls = 0
    /\ change = <<>>
    /\ mu = "free"
    /\ cbs = {}
    /\ ifState \in {InitialState} \cup (IF static THEN {NilState} ELSE {})
    /\ gwValid = FALSE
    /\ gw = ZeroAddr
    /\ gwRet = NoGatewayCall
    /\ wallTimer = "nil"
    /\ timersCreated = 0
    /\ timeJumped = FALSE
    /\ wallGap = FALSE
    /\ goroutines = 0
    /\ spawned = 0
    /\ pumpPc = "none"
    /\ dbPc = "none"
    /\ forceCallbacks = FALSE
    /\ newState = NilState
    /\ tasks = {}
    /\ nDispatch = 0
    /\ lastDelta = ChangeDeltaLiteral(NilState, NilState, FALSE, "")
    /\ closePc = [c \in Closers |-> "idle"]
    /\ closeRet = [c \in Closers |-> "none"]
    /\ closeStarted = [c \in Closers |-> FALSE]
    /\ owed = {}

\* The deltas that the signals, notifications and timer expiries under way can
\* still cause, added to those dispatched.  The environment acts only while
\* this stays below MaxDispatch; no step of the Monitor itself is held back.
PotentialRounds ==
    nDispatch + Len(change)
    + (IF dbPc \in {"snapshot", "handle", "locked"} THEN 1 ELSE 0)
    + (IF pumpPc = "poll" THEN 1 ELSE 0)
    + (IF wallTimer = "fired" THEN 1 ELSE 0)

EnvMayAct == PotentialRounds < MaxDispatch

\* A send that replaced the pending signal by the new one.
TrySendOverwrites(ch, v) == <<v>>

TrySendQueues(ch, v) == Append(ch, v)

\* select { case m.change <- v: default: } (lines 451-457, 469-472).
TrySend(ch, v) == IF Len(ch) = 0 THEN <<v>> ELSE ch

\* RegisterChangeCallback (lines 373-385).
RegisterChangeCallback(h) ==
    /\ ~static
    /\ mu = "free"
    /\ h \in registrants
    /\ h \notin cbs
    /\ cbs' = cbs \cup {h}
    /\ UNCHANGED <<asideVars, flagVars, lifeVars, timerVars, pumpVars, dbVars,
                   stateVars, dispatchVars, closeVars, change, mu, owed>>

UnregisterClearsAll(h) ==
    /\ ~static
    /\ mu = "free"
    /\ h \in registrants
    /\ cbs' = {}
    /\ owed' = {}
    /\ UNCHANGED <<asideVars, flagVars, lifeVars, timerVars, pumpVars, dbVars,
                   stateVars, dispatchVars, closeVars, change, mu>>

\* The unregister function RegisterChangeCallback returned (lines 380-384),
\* called from any goroutine, a callback's included; delete of a handle that
\* is not in the set, as when the function is called again, changes nothing.
Unregister(h) ==
    /\ ~static
    /\ mu = "free"
    /\ h \in registrants
    /\ cbs' = cbs \ {h}
    /\ owed' = owed \ {h}
    /\ UNCHANGED <<asideVars, flagVars, lifeVars, timerVars, pumpVars, dbVars,
                   stateVars, dispatchVars, closeVars, change, mu>>

StartNoClosedCheck ==
    /\ ~static
    /\ mu = "free"
    /\ IF started
       THEN UNCHANGED <<lifeVars, timerVars, pumpVars, dbVars>>
       ELSE /\ started' = TRUE
            /\ IF shouldMonitorTimeJump
               THEN wallTimer' = "armed" /\ timersCreated' = timersCreated + 1
               ELSE UNCHANGED <<wallTimer, timersCreated>>
            /\ goroutines' = goroutines + 2
            /\ spawned' = spawned + 2
            /\ pumpPc' = "loop"
            /\ dbPc' = "select"
            /\ UNCHANGED <<closed, stop, omClosed, omCloseCalls, timeJumped, wallGap,
                           forceCallbacks, newState>>
    /\ UNCHANGED <<asideVars, flagVars, stateVars, dispatchVars, closeVars, change,
                   mu, cbs, owed>>

\* Start (lines 389-410).  New never leaves m.om nil.
Start ==
    /\ ~static
    /\ mu = "free"
    /\ IF started \/ closed
       THEN UNCHANGED <<lifeVars, timerVars, pumpVars, dbVars>>
       ELSE /\ started' = TRUE
            /\ IF shouldMonitorTimeJump
               THEN wallTimer' = "armed" /\ timersCreated' = timersCreated + 1
               ELSE UNCHANGED <<wallTimer, timersCreated>>
            /\ goroutines' = goroutines + 2
            /\ spawned' = spawned + 2
            /\ pumpPc' = "loop"
            /\ dbPc' = "select"
            /\ UNCHANGED <<closed, stop, omClosed, omCloseCalls, timeJumped, wallGap,
                           forceCallbacks, newState>>
    /\ UNCHANGED <<asideVars, flagVars, stateVars, dispatchVars, closeVars, change,
                   mu, cbs, owed>>

\* The two Close calls are alike: "closer1" names the one that is first to
\* take its first step.
CloseOrder(c) == c = "closer2" => closePc["closer1"] # "idle"

\* Close on a static Monitor (lines 414-416).
CloseStatic(c) ==
    /\ static
    /\ closePc[c] = "idle"
    /\ CloseOrder(c)
    /\ closePc' = [closePc EXCEPT ![c] = "returned"]
    /\ closeRet' = [closeRet EXCEPT ![c] = "nil"]
    /\ UNCHANGED <<asideVars, flagVars, lifeVars, timerVars, pumpVars, dbVars,
                   stateVars, dispatchVars, closeStarted, change, mu, cbs, owed>>

CloseLockNoClosedCheck(c) ==
    /\ ~static
    /\ closePc[c] = "idle"
    /\ CloseOrder(c)
    /\ mu = "free"
    /\ closed' = TRUE
    /\ stop' = TRUE
    /\ mu' = c
    /\ owed' = {}
    /\ closePc' = [closePc EXCEPT ![c] = "locked"]
    /\ UNCHANGED <<closeRet, started, omClosed, omCloseCalls, goroutines, spawned>>
    /\ UNCHANGED <<asideVars, flagVars, timerVars, pumpVars, dbVars, stateVars,
                   dispatchVars, closeStarted, change, cbs>>

\* Close, lines 417-423: the lock is taken; a closed Monitor makes the call
\* return nil, otherwise closed is set and the stop channel is closed.
CloseLock(c) ==
    /\ ~static
    /\ closePc[c] = "idle"
    /\ CloseOrder(c)
    /\ mu = "free"
    /\ IF closed
       THEN /\ closePc' = [closePc EXCEPT ![c] = "returned"]
            /\ closeRet' = [closeRet EXCEPT ![c] = "nil"]
            /\ UNCHANGED <<lifeVars, mu, owed>>
       ELSE /\ closed' = TRUE
            /\ stop' = TRUE
            /\ mu' = c
            /\ owed' = {}
            /\ closePc' = [closePc EXCEPT ![c] = "locked"]
            /\ UNCHANGED <<closeRet, started, omClosed, omCloseCalls, goroutines, spawned>>
    /\ UNCHANGED <<asideVars, flagVars, timerVars, pumpVars, dbVars, stateVars,
                   dispatchVars, closeStarted, change, cbs>>

CloseBodyKeepsOsMonOpen(c) ==
    /\ closePc[c] = "locked"
    /\ mu = c
    /\ wallTimer' = IF wallTimer = "armed" THEN "stopped" ELSE wallTimer
    /\ closeRet' = [closeRet EXCEPT ![c] = "nil"]
    /\ closeStarted' = [closeStarted EXCEPT ![c] = started]
    /\ mu' = "free"
    /\ closePc' = [closePc EXCEPT ![c] = IF started THEN "wait" ELSE "returned"]
    /\ UNCHANGED <<asideVars, flagVars, started, closed, stop, omClosed, omCloseCalls,
                   goroutines, spawned, timersCreated, timeJumped, wallGap, pumpVars,
                   dbVars, stateVars, dispatchVars, change, cbs, owed>>

\* Close, lines 425-441 up to the wait: the timer is stopped (a timer whose
\* function already runs is not affected), the osMon is closed, which returns
\* nil or an error, and the lock is released.  An unstarted Monitor's Close
\* returns here.
CloseBody(c) ==
    /\ closePc[c] = "locked"
    /\ mu = c
    /\ wallTimer' = IF wallTimer = "armed" THEN "stopped" ELSE wallTimer
    /\ omClosed' = TRUE
    /\ omCloseCalls' = omCloseCalls + 1
    /\ \E err \in {"nil", "error"} : closeRet' = [closeRet EXCEPT ![c] = err]
    /\ closeStarted' = [closeStarted EXCEPT ![c] = started]
    /\ mu' = "free"
    /\ closePc' = [closePc EXCEPT ![c] = IF started THEN "wait" ELSE "returned"]
    /\ UNCHANGED <<asideVars, flagVars, started, closed, stop, goroutines, spawned,
                   timersCreated, timeJumped, wallGap, pumpVars, dbVars, stateVars,
                   dispatchVars, change, cbs, owed>>

CloseWaitForCallbacks(c) ==
    /\ closePc[c] = "wait"
    /\ goroutines = 0
    /\ tasks = {}
    /\ closePc' = [closePc EXCEPT ![c] = "returned"]
    /\ UNCHANGED <<asideVars, flagVars, lifeVars, timerVars, pumpVars, dbVars,
                   stateVars, dispatchVars, closeRet, closeStarted, change, mu, cbs, owed>>

CloseWaitNoWait(c) ==
    /\ closePc[c] = "wait"
    /\ closePc' = [closePc EXCEPT ![c] = "returned"]
    /\ UNCHANGED <<asideVars, flagVars, lifeVars, timerVars, pumpVars, dbVars,
                   stateVars, dispatchVars, closeRet, closeStarted, change, mu, cbs, owed>>

\* Close, line 438: m.goroutines.Wait().
CloseWait(c) ==
    /\ closePc[c] = "wait"
    /\ goroutines = 0
    /\ closePc' = [closePc EXCEPT ![c] = "returned"]
    /\ UNCHANGED <<asideVars, flagVars, lifeVars, timerVars, pumpVars, dbVars,
                   stateVars, dispatchVars, closeRet, closeStarted, change, mu, cbs, owed>>

\* InjectEvent (lines 447-458).  The call owes an invocation to every callback
\* registered on a started Monitor that is not closed.
InjectEvent ==
    /\ ~static
    /\ EnvMayAct
    /\ change' = TrySend(change, TRUE)
    /\ owed' = IF started /\ ~closed THEN owed \cup cbs ELSE owed
    /\ UNCHANGED <<asideVars, flagVars, lifeVars, timerVars, pumpVars, dbVars,
                   stateVars, dispatchVars, closeVars, mu, cbs>>

\* Poll (lines 465-473), called from outside the Monitor.
Poll ==
    /\ ~static
    /\ EnvMayAct
    /\ change' = TrySend(change, FALSE)
    /\ UNCHANGED <<asideVars, flagVars, lifeVars, timerVars, pumpVars, dbVars,
                   stateVars, dispatchVars, closeVars, mu, cbs, owed>>

\* The methods that return at once on a static Monitor.
StaticMethods ==
    {"Start", "InjectEvent", "Poll", "RegisterChangeCallback", "unregister"}

StaticCallStarts(method) ==
    /\ static
    /\ method \in StaticMethods
    /\ method = "unregister" => "RegisterChangeCallback" \in staticCalls
    /\ staticCalls' = staticCalls \cup {method}
    /\ IF method = "Start" /\ ~started
       THEN /\ started' = TRUE
            /\ goroutines' = goroutines + 2
            /\ spawned' = spawned + 2
            /\ pumpPc' = "loop"
            /\ dbPc' = "select"
            /\ UNCHANGED <<closed, stop, omClosed, omCloseCalls, forceCallbacks,
                           newState>>
       ELSE UNCHANGED <<lifeVars, pumpVars, dbVars>>
    /\ UNCHANGED <<asideVars, configVars, timerVars, stateVars, dispatchVars,
                   closeVars, change, mu, cbs, owed>>

\* A call on a static Monitor of Start (lines 390-392), InjectEvent (lines
\* 448-450), Poll (lines 466-468), RegisterChangeCallback (lines 374-376) or
\* the unregister function it returned (line 375): each returns at once.
StaticCall(method) ==
    /\ static
    /\ method \in StaticMethods
    /\ method = "unregister" => "RegisterChangeCallback" \in staticCalls
    /\ staticCalls' = staticCalls \cup {method}
    /\ UNCHANGED <<asideVars, configVars, lifeVars, timerVars, pumpVars, dbVars,
                   stateVars, dispatchVars, closeVars, change, mu, cbs, owed>>

\* GatewayAndSelfIP on a static Monitor (lines 344-350): the zero values.
GatewayAndSelfIPStatic ==
    /\ static
    /\ gwRet' = [call |-> "zero", gw |-> ZeroAddr, ok |-> FALSE]
    /\ UNCHANGED <<asideVars, flagVars, lifeVars, timerVars, pumpVars, dbVars,
                   ifState, gwValid, gw, dispatchVars, closeVars, change, mu, cbs,
                   owed>>

GatewayAndSelfIPCachesFailure ==
    /\ ~static
    /\ mu = "free"
    /\ IF gwValid
       THEN /\ gwRet' = [call |-> "cached", gw |-> gw, ok |-> TRUE]
            /\ UNCHANGED <<gwValid, gw>>
       ELSE \E r \in LikelyHomeRouterIP :
            /\ gwRet' = [call |-> "queried", gw |-> r.gw, ok |-> r.ok]
            /\ gw' = r.gw
            /\ gwValid' = TRUE
    /\ UNCHANGED <<asideVars, flagVars, lifeVars, timerVars, pumpVars, dbVars,
                   ifState, dispatchVars, closeVars, change, mu, cbs, owed>>

\* GatewayAndSelfIP on a Monitor made by New, in a build with the port mapper
\* (lines 344-368): a valid cache answers; otherwise LikelyHomeRouterIP is
\* asked, and its answer is cached when ok.  The lock is taken and released
\* within the step.
GatewayAndSelfIP ==
    /\ ~static
    /\ mu = "free"
    /\ IF gwValid
       THEN /\ gwRet' = [call |-> "cached", gw |-> gw, ok |-> TRUE]
            /\ UNCHANGED <<gwValid, gw>>
       ELSE \E r \in LikelyHomeRouterIP :
            /\ gwRet' = [call |-> "queried", gw |-> r.gw, ok |-> r.ok]
            /\ IF r.ok
               THEN gw' = r.gw /\ gwValid' = TRUE
               ELSE UNCHANGED <<gwValid, gw>>
    /\ UNCHANGED <<asideVars, flagVars, lifeVars, timerVars, pumpVars, dbVars,
                   ifState, dispatchVars, closeVars, change, mu, cbs, owed>>

\* pump, line 488: the loop condition !m.stopped(); the deferred
\* m.goroutines.Done() runs when the goroutine returns.
PumpLoop ==
    /\ pumpPc = "loop"
    /\ IF stop
       THEN pumpPc' = "done" /\ goroutines' = goroutines - 1
       ELSE pumpPc' = "receive" /\ UNCHANGED goroutines
    /\ UNCHANGED <<asideVars, flagVars, started, closed, stop, omClosed, omCloseCalls,
                   spawned, timerVars, dbVars, stateVars, dispatchVars, closeVars,
                   change, mu, cbs, owed>>

\* pump, lines 489 and 499-502: Receive returns a message of an open osMon; an
\* ignorable one restarts the loop.
PumpReceiveMessage ==
    /\ pumpPc = "receive"
    /\ ~omClosed
    /\ \E ignore \in BOOLEAN :
        IF ignore THEN pumpPc' = "loop" ELSE EnvMayAct /\ pumpPc' = "poll"
    /\ UNCHANGED <<asideVars, flagVars, lifeVars, timerVars, dbVars, stateVars,
                   dispatchVars, closeVars, change, mu, cbs, owed>>

ReceiveErrorEndsPump ==
    /\ pumpPc = "receive"
    /\ pumpPc' = "done" /\ goroutines' = goroutines - 1
    /\ UNCHANGED <<asideVars, flagVars, started, closed, stop, omClosed, omCloseCalls,
                   spawned, timerVars, dbVars, stateVars, dispatchVars, closeVars,
                   change, mu, cbs, owed>>

\* pump, lines 490-497: Receive returns an error.
ReceiveError ==
    /\ pumpPc = "receive"
    /\ IF stop
       THEN pumpPc' = "done" /\ goroutines' = goroutines - 1
       ELSE pumpPc' = "sleep" /\ UNCHANGED goroutines
    /\ UNCHANGED <<asideVars, flagVars, started, closed, stop, omClosed, omCloseCalls,
                   spawned, timerVars, dbVars, stateVars, dispatchVars, closeVars,
                   change, mu, cbs, owed>>

\* A transient error of an open osMon.
PumpReceiveError == ~omClosed /\ ReceiveError

\* Receive of a closed osMon returns (an error).
PumpReceiveClosed == omClosed /\ ReceiveError

\* pump, lines 496-497: time.Sleep(time.Second); continue.
PumpSleep ==
    /\ pumpPc = "sleep"
    /\ pumpPc' = "loop"
    /\ UNCHANGED <<asideVars, flagVars, lifeVars, timerVars, dbVars, stateVars,
                   dispatchVars, closeVars, change, mu, cbs, owed>>

PumpPollSendsNothing ==
    /\ pumpPc = "poll"
    /\ change' = change
    /\ pumpPc' = "loop"
    /\ UNCHANGED <<asideVars, flagVars, lifeVars, timerVars, dbVars, stateVars,
                   dispatchVars, closeVars, mu, cbs, owed>>

\* pump, line 502: m.Poll().
PumpPoll ==
    /\ pumpPc = "poll"
    /\ change' = TrySend(change, FALSE)
    /\ pumpPc' = "loop"
    /\ UNCHANGED <<asideVars, flagVars, lifeVars, timerVars, dbVars, stateVars,
                   dispatchVars, closeVars, mu, cbs, owed>>

\* debounce, lines 512-516, the first select: case <-m.stop.  When both
\* channels are ready the runtime takes either case, chosen at random.
DebounceSelectStop ==
    /\ dbPc = "select"
    /\ stop
    /\ dbPc' = "done"
    /\ goroutines' = goroutines - 1
    /\ UNCHANGED <<asideVars, flagVars, started, closed, stop, omClosed, omCloseCalls,
                   spawned, timerVars, pumpVars, forceCallbacks, newState, stateVars,
                   dispatchVars, closeVars, change, mu, cbs, owed>>

\* debounce, lines 512-516, the first select: case forceCallbacks = <-m.change.
\* A debounce that took the mutex when it received the signal and so held it
\* during the snapshot.
DebounceSelectChangeTakesLock ==
    /\ dbPc = "select"
    /\ Len(change) > 0
    /\ mu = "free"
    /\ mu' = "debounce"
    /\ forceCallbacks' = Head(change)
    /\ change' = Tail(change)
    /\ dbPc' = "snapshot"
    /\ UNCHANGED <<asideVars, flagVars, lifeVars, timerVars, pumpVars, newState,
                   stateVars, dispatchVars, closeVars, cbs, owed>>

DebounceSelectChange ==
    /\ dbPc = "select"
    /\ Len(change) > 0
    /\ forceCallbacks' = Head(change)
    /\ change' = Tail(change)
    /\ dbPc' = "snapshot"
    /\ UNCHANGED <<asideVars, flagVars, lifeVars, timerVars, pumpVars, newState,
                   stateVars, dispatchVars, closeVars, mu, cbs, owed>>

DebounceSnapshotFailureClearsJump ==
    /\ dbPc = "snapshot"
    /\ \/ /\ dbPc' = "wait"
          /\ forceCallbacks' = FALSE
          /\ timeJumped' = FALSE
          /\ UNCHANGED newState
       \/ \E st \in MonitorStates :
            /\ newState' = st /\ dbPc' = "handle"
            /\ UNCHANGED <<forceCallbacks, timeJumped>>
    /\ UNCHANGED <<asideVars, flagVars, lifeVars, wallTimer, timersCreated, wallGap,
                   pumpVars, stateVars, dispatchVars, closeVars, change, mu, cbs, owed>>

DebounceSnapshotSkipsWait ==
    /\ dbPc = "snapshot"
    /\ \/ /\ dbPc' = "select"
          /\ forceCallbacks' = FALSE
          /\ UNCHANGED newState
       \/ \E st \in MonitorStates :
            newState' = st /\ dbPc' = "handle" /\ UNCHANGED forceCallbacks
    /\ UNCHANGED <<asideVars, flagVars, lifeVars, timerVars, pumpVars, stateVars,
                   dispatchVars, closeVars, change, mu, cbs, owed>>

DebounceSnapshotIgnoresError ==
    /\ dbPc = "snapshot"
    /\ \E st \in MonitorStates \cup {NilState} :
            newState' = st /\ dbPc' = "handle" /\ UNCHANGED forceCallbacks
    /\ UNCHANGED <<asideVars, flagVars, lifeVars, timerVars, pumpVars, stateVars,
                   dispatchVars, closeVars, change, mu, cbs, owed>>

\* debounce, lines 518-522: m.interfaceStateUncached() fails, or returns a
\* State that handlePotentialChange is called with.  The locals forceCallbacks
\* and newState are not read after the call.
DebounceSnapshot ==
    /\ dbPc = "snapshot"
    /\ \/ /\ dbPc' = "wait"
          /\ forceCallbacks' = FALSE
          /\ UNCHANGED newState
       \/ \E st \in MonitorStates :
            newState' = st /\ dbPc' = "handle" /\ UNCHANGED forceCallbacks
    /\ UNCHANGED <<asideVars, flagVars, lifeVars, timerVars, pumpVars, stateVars,
                   dispatchVars, closeVars, change, mu, cbs, owed>>

\* handlePotentialChange, line 547: m.mu.Lock().
HandleLock ==
    /\ dbPc = "handle"
    /\ mu = "free"
    /\ mu' = "debounce"
    /\ dbPc' = "locked"
    /\ UNCHANGED <<asideVars, flagVars, lifeVars, timerVars, pumpVars, forceCallbacks,
                   newState, stateVars, dispatchVars, closeVars, change, cbs, owed>>

\* A checkWallTimeAdvanceLocked that returned only the fresh comparison and
\* not the flag it keeps.
WallTimeAdvancedForgetsFlag == wallGap

\* checkWallTimeAdvanceLocked (lines 628-638): the value it returns.
WallTimeAdvanced == timeJumped \/ wallGap

\* The callback goroutines that lines 575-577 spawn for the delta numbered id;
\* each is handed a pointer to that one delta.
SpawnedForFirstOnly(id, handles, delta) ==
    { [id |-> id, h |-> h, st |-> "spawned", d |-> delta] :
        h \in { x \in handles : \A y \in handles : x <= y } }

SpawnedFor(id, handles, delta) ==
    { [id |-> id, h |-> h, st |-> "spawned", d |-> delta] : h \in handles }

HandleBodyKeepsStoredState ==
    /\ dbPc = "locked"
    /\ mu = "debounce"
    /\ LET oldState == ifState
           jumped == shouldMonitorTimeJump /\ WallTimeAdvanced
           delta == NewChangeDelta(oldState, newState, jumped, tsIfName,
                                   IsInterestingInterface)
       IN  IF ~jumped /\ ~forceCallbacks /\ StateEqual(oldState, newState)
           THEN /\ timeJumped' = (IF shouldMonitorTimeJump THEN jumped ELSE timeJumped)
                /\ wallGap' = (IF shouldMonitorTimeJump THEN FALSE ELSE wallGap)
                /\ UNCHANGED <<stateVars, dispatchVars>>
           ELSE /\ gwValid' = (IF delta.RebindLikelyRequired THEN FALSE ELSE gwValid)
                /\ UNCHANGED <<gw, gwRet>>
                /\ ifState' = ifState
                /\ timeJumped' = (IF shouldMonitorTimeJump THEN FALSE ELSE timeJumped)
                /\ wallGap' = (IF shouldMonitorTimeJump THEN FALSE ELSE wallGap)
                /\ nDispatch' = nDispatch + 1
                /\ lastDelta' = delta
                /\ tasks' = tasks \cup SpawnedFor(nDispatch + 1, cbs, delta)
    /\ mu' = "free"
    /\ dbPc' = "wait"
    /\ forceCallbacks' = FALSE
    /\ newState' = NilState
    /\ UNCHANGED <<asideVars, flagVars, lifeVars, wallTimer, timersCreated, pumpVars,
                   closeVars, change, cbs, owed>>

\* handlePotentialChange, lines 549-578, and the deferred Unlock.
HandleBody ==
    /\ dbPc = "locked"
    /\ mu = "debounce"
    /\ LET oldState == ifState
           jumped == shouldMonitorTimeJump /\ WallTimeAdvanced
           delta == NewChangeDelta(oldState, newState, jumped, tsIfName,
                                   IsInterestingInterface)
       IN  IF ~jumped /\ ~forceCallbacks /\ StateEqual(oldState, newState)
           THEN /\ timeJumped' = (IF shouldMonitorTimeJump THEN jumped ELSE timeJumped)
                /\ wallGap' = (IF shouldMonitorTimeJump THEN FALSE ELSE wallGap)
                /\ UNCHANGED <<stateVars, dispatchVars>>
           ELSE /\ gwValid' = (IF delta.RebindLikelyRequired THEN FALSE ELSE gwValid)
                /\ UNCHANGED <<gw, gwRet>>
                /\ ifState' = newState
                /\ timeJumped' = (IF shouldMonitorTimeJump THEN FALSE ELSE timeJumped)
                /\ wallGap' = (IF shouldMonitorTimeJump THEN FALSE ELSE wallGap)
                /\ nDispatch' = nDispatch + 1
                /\ lastDelta' = delta
                /\ tasks' = tasks \cup SpawnedFor(nDispatch + 1, cbs, delta)
    /\ mu' = "free"
    /\ dbPc' = "wait"
    /\ forceCallbacks' = FALSE
    /\ newState' = NilState
    /\ UNCHANGED <<asideVars, flagVars, lifeVars, wallTimer, timersCreated, pumpVars,
                   closeVars, change, cbs, owed>>

\* debounce, lines 524-531, the second select: case <-m.stop.
DebounceWaitStop ==
    /\ dbPc = "wait"
    /\ stop
    /\ dbPc' = "done"
    /\ goroutines' = goroutines - 1
    /\ UNCHANGED <<asideVars, flagVars, started, closed, stop, omClosed, omCloseCalls,
                   spawned, timerVars, pumpVars, forceCallbacks, newState, stateVars,
                   dispatchVars, closeVars, change, mu, cbs, owed>>

\* debounce, lines 524-531, the second select: case <-time.After(1000 ms).
DebounceWaitElapsed ==
    /\ dbPc = "wait"
    /\ dbPc' = "select"
    /\ UNCHANGED <<asideVars, flagVars, lifeVars, timerVars, pumpVars, forceCallbacks,
                   newState, stateVars, dispatchVars, closeVars, change, mu, cbs, owed>>

\* A callback goroutine spawned by line 576 starts to run cb(&delta).
CallbackStart(t) ==
    /\ t \in tasks
    /\ t.st = "spawned"
    /\ tasks' = (tasks \ {t}) \cup {[t EXCEPT !.st = "running"]}
    /\ owed' = owed \ {t.h}
    /\ UNCHANGED <<asideVars, flagVars, lifeVars, timerVars, pumpVars, dbVars,
                   stateVars, nDispatch, lastDelta, closeVars, change, mu, cbs>>

\* A callback returns and its goroutine ends.
CallbackReturn(t) ==
    /\ t \in tasks
    /\ t.st = "running"
    /\ tasks' = tasks \ {t}
    /\ UNCHANGED <<asideVars, flagVars, lifeVars, timerVars, pumpVars, dbVars,
                   stateVars, nDispatch, lastDelta, closeVars, change, mu, cbs, owed>>

\* The wall clock runs more than 1.5 poll intervals ahead of lastWall; only a
\* build that watches the wall clock reads lastWall.
ClockJump ==
    /\ ~static
    /\ shouldMonitorTimeJump
    /\ ~wallGap
    /\ EnvMayAct
    /\ wallGap' = TRUE
    /\ UNCHANGED <<asideVars, flagVars, lifeVars, wallTimer, timersCreated, timeJumped,
                   pumpVars, dbVars, stateVars, dispatchVars, closeVars, change, mu,
                   cbs, owed>>

\* The timer of line 401 expires: pollWallTime starts in a goroutine of its own.
TimerFire ==
    /\ wallTimer = "armed"
    /\ EnvMayAct
    /\ wallTimer' = "fired"
    /\ UNCHANGED <<asideVars, flagVars, lifeVars, timersCreated, timeJumped, wallGap,
                   pumpVars, dbVars, stateVars, dispatchVars, closeVars, change, mu,
                   cbs, owed>>

\* A pollWallTime without the check of m.closed.
PollWallTimeNoClosedCheck ==
    /\ wallTimer = "fired"
    /\ mu = "free"
    /\ timeJumped' = WallTimeAdvanced
    /\ wallGap' = FALSE
    /\ IF WallTimeAdvanced
       THEN /\ change' = TrySend(change, TRUE)
            /\ owed' = (IF started /\ ~closed THEN owed \cup cbs ELSE owed)
       ELSE UNCHANGED <<change, owed>>
    /\ wallTimer' = "armed"
    /\ UNCHANGED <<asideVars, flagVars, lifeVars, timersCreated, pumpVars, dbVars,
                   stateVars, dispatchVars, closeVars, mu, cbs>>

\* pollWallTime (lines 606-616).
PollWallTime ==
    /\ wallTimer = "fired"
    /\ mu = "free"
    /\ IF closed
       THEN /\ wallTimer' = "expired"
            /\ UNCHANGED <<timeJumped, wallGap, change, owed>>
       ELSE /\ timeJumped' = WallTimeAdvanced
            /\ wallGap' = FALSE
            /\ IF WallTimeAdvanced
               THEN /\ change' = TrySend(change, TRUE)
                    /\ owed' = (IF started /\ ~closed THEN owed \cup cbs ELSE owed)
               ELSE UNCHANGED <<change, owed>>
            /\ wallTimer' = "armed"
    /\ UNCHANGED <<asideVars, flagVars, lifeVars, timersCreated, pumpVars, dbVars,
                   stateVars, dispatchVars, closeVars, mu, cbs>>

\* The steps of a Monitor made by New whose build does not watch the wall
\* clock.
\* The holder of m.mu while SetTailscaleInterfaceName(name) runs.
SetterOf(name) == IF name = "" THEN "setter-empty" ELSE "setter-ts0"

\* SetTailscaleInterfaceName (lines 327-329): the lock is taken.
SetTailscaleInterfaceNameLock(ifName) ==
    /\ mu = "free"
    /\ mu' = SetterOf(ifName)
    /\ UNCHANGED <<asideVars, flagVars, lifeVars, timerVars, pumpVars, dbVars,
                   stateVars, dispatchVars, closeVars, change, cbs, owed>>

\* SetTailscaleInterfaceName (lines 329-331): the name is stored and the lock
\* released.
SetTailscaleInterfaceNameBody(ifName) ==
    /\ mu = SetterOf(ifName)
    /\ tsIfName' = ifName
    /\ mu' = "free"
    /\ UNCHANGED <<asideVars, static, shouldMonitorTimeJump, registrants,
                   staticCalls, lifeVars, timerVars, pumpVars, dbVars, stateVars,
                   dispatchVars, closeVars, change, cbs, owed>>

CoreNext ==
    \/ \E h \in Handles : RegisterChangeCallback(h)
    \/ \E h \in Handles : Unregister(h)
    \/ Start
    \/ \E c \in Closers : CloseLock(c)
    \/ \E c \in Closers : CloseBody(c)
    \/ \E c \in Closers : CloseWait(c)
    \/ InjectEvent
    \/ Poll
    \/ PumpLoop
    \/ PumpReceiveMessage
    \/ PumpReceiveError
    \/ PumpReceiveClosed
    \/ PumpSleep
    \/ PumpPoll
    \/ DebounceSelectStop
    \/ DebounceSelectChange
    \/ DebounceSnapshot
    \/ HandleLock
    \/ HandleBody
    \/ DebounceWaitStop
    \/ DebounceWaitElapsed
    \/ \E t \in tasks : CallbackStart(t)
    \/ \E t \in tasks : CallbackReturn(t)

MonNext ==
    \/ CoreNext
    \/ \E c \in Closers : CloseStatic(c)
    \/ \E method \in StaticMethods : StaticCall(method)
    \/ GatewayAndSelfIPStatic
    \/ ClockJump
    \/ TimerFire
    \/ PollWallTime

MonIdle ==
    /\ static = FALSE
    /\ shouldMonitorTimeJump = FALSE
    /\ tsIfName = ""
    /\ registrants = {1}
    /\ staticCalls = {}
    /\ started = FALSE
    /\ closed = FALSE
    /\ stop = FALSE
    /\ omClosed = FALSE
    /\ omCloseCalls = 0
    /\ change = <<>>
    /\ mu = "free"
    /\ cbs = {}
    /\ ifState = NilState
    /\ gwValid = FALSE
    /\ gw = ZeroAddr
    /\ gwRet = NoGatewayCall
    /\ wallTimer = "nil"
    /\ timersCreated = 0
    /\ timeJumped = FALSE
    /\ wallGap = FALSE
    /\ goroutines = 0
    /\ spawned = 0
    /\ pumpPc = "none"
    /\ dbPc = "none"
    /\ forceCallbacks = FALSE
    /\ newState = NilState
    /\ tasks = {}
    /\ nDispatch = 0
    /\ lastDelta = ChangeDeltaLiteral(NilState, NilState, FALSE, "")
    /\ closePc = [c \in Closers |-> "idle"]
    /\ closeRet = [c \in Closers |-> "none"]
    /\ closeStarted = [c \in Closers |-> FALSE]
    /\ owed = {}

(***************************************************************************)
(* The reachability prober.                                                *)
(***************************************************************************)
\* How many interfaces net.Interfaces returns at most.
MaxIfaces == 2

\* A nil *net.Interface, and the Index that no interface has.
NoIface == 0

\* The kinds of address of an interface.
AddrKinds == {"v4", "v4linklocal", "v6global", "v6linklocal", "ts"}

\* net.IP.IsGlobalUnicast, by kind of address.
IsGlobalUnicast(a) == a \in {"v4", "v6global", "ts"}

\* tsaddr.IsTailscaleIP, by kind of address.
IsTailscaleIP(a) == a = "ts"

\* What iface.Addrs can return: an error, or a list of addresses.
AddrResults ==
    { [err |-> TRUE, list |-> <<>>] }
    \cup { [err |-> FALSE, list |-> l] :
            l \in { <<>>, <<"v4">>, <<"v4linklocal">>, <<"v6linklocal", "v6global">>,
                    <<"ts">> } }

\* A net.Interface: its Index, the flags that are tested, and its addresses.
IfaceFlags ==
    [up : BOOLEAN, running : BOOLEAN, loopback : BOOLEAN, addrs : AddrResults]

\* The lists net.Interfaces can return; the interface at place i has Index i.
IfaceLists ==
    UNION { { [i \in 1 .. n |->
                [index |-> i, up |-> f[i].up, running |-> f[i].running,
                 loopback |-> f[i].loopback, addrs |-> f[i].addrs]] :
              f \in [1 .. n -> IfaceFlags] } : n \in 0 .. MaxIfaces }

\* The filters a caller passes: a platform's may reject an interface by name.
FilterValues == {"nil", "acceptAll", "rejectAll", "rejectFirst"}

CallFilter(f, iface) ==
    CASE f = "acceptAll" -> TRUE
      [] f = "rejectAll" -> FALSE
      [] f = "rejectFirst" -> iface.index # 1

\* The sorters a caller passes.
SorterValues == {"nil", "reverse"}

CallSorter(f, res) ==
    IF f = "reverse" THEN [i \in 1 .. Len(res) |-> res[Len(res) + 1 - i]] ELSE res

\* defaultIfaceHintFn (lines 705-713): not set, or a function that returns an
\* interface index.
HintValues ==
    { [set |-> FALSE, idx |-> NoIface] }
    \cup { [set |-> TRUE, idx |-> i] : i \in 0 .. MaxIfaces }

\* tailscaleInterface (lines 663-684) on a list of interfaces: the Index of
\* the first one that has a Tailscale address.
tailscaleInterface(ifs) ==
    LET hits == { i \in 1 .. Len(ifs) :
                    /\ ~ifs[i].addrs.err
                    /\ \E k \in 1 .. Len(ifs[i].addrs.list) :
                          IsTailscaleIP(ifs[i].addrs.list[k]) }
    IN  IF hits = {} THEN NoIface
        ELSE ifs[CHOOSE i \in hits : \A j \in hits : i <= j].index

\* ifaceHasV4OrGlobalV6 (lines 932-947).
ifaceHasV4OrGlobalV6(iface) ==
    /\ ~iface.addrs.err
    /\ \E k \in 1 .. Len(iface.addrs.list) : IsGlobalUnicast(iface.addrs.list[k])

\* The body of the loop of lines 745-769: whether iface becomes a candidate.
IsCandidate(iface, f, ts) ==
    /\ ~(f # "nil" /\ ~CallFilter(f, iface))
    /\ ~(~iface.up \/ iface.loopback \/ ~iface.running)
    /\ ~(ts # NoIface /\ iface.index = ts)
    /\ ifaceHasV4OrGlobalV6(iface)

SelectCandidates(ifs, f, ts) ==
    LET Keep(iface) == IsCandidate(iface, f, ts) IN SelectSeq(ifs, Keep)

\* A filterInPlace that dropped nothing.
filterInPlaceKeepsAll(seq, keep) == seq

\* filterInPlace (lines 853-862); keep is given as the set of the values the
\* predicate accepts.
filterInPlace(seq, keep) ==
    LET Keep(v) == v \in keep IN SelectSeq(seq, Keep)

NoResults == [res |-> <<>>, err |-> "none"]

NoReturn == [iface |-> NoIface, err |-> "none"]

ProbeInit ==
    /\ netInterfaces \in
          { [err |-> TRUE, list |-> <<>>] }
          \cup { [err |-> FALSE, list |-> l] : l \in IfaceLists }
    /\ filterf \in FilterValues
    /\ sortf \in SorterValues
    /\ probePc = "idle"
    /\ tsiface = NoIface
    /\ candidates = <<>>
    /\ resultsCap = 0
    /\ results = <<>>
    /\ dials = <<>>
    /\ out = <<>>
    /\ probeRet = NoResults
    /\ hintRead = [set |-> FALSE, idx |-> NoIface]
    /\ findRet = NoReturn

ProbeIdle ==
    /\ netInterfaces = [err |-> TRUE, list |-> <<>>]
    /\ filterf = "nil"
    /\ sortf = "nil"
    /\ probePc = "idle"
    /\ tsiface = NoIface
    /\ candidates = <<>>
    /\ resultsCap = 0
    /\ results = <<>>
    /\ dials = <<>>
    /\ out = <<>>
    /\ probeRet = NoResults
    /\ hintRead = [set |-> FALSE, idx |-> NoIface]
    /\ findRet = NoReturn

\* A probeInterfacesReachability whose results channel holds one value only.
ProbeStartSmallChannel ==
    /\ probePc = "idle"
    /\ IF netInterfaces.err
       THEN /\ probeRet' = [res |-> <<>>, err |-> "net.Interfaces"]
            /\ probePc' = "probed"
            /\ UNCHANGED <<tsiface, candidates, resultsCap, dials>>
       ELSE \E ts \in {tailscaleInterface(netInterfaces.list), NoIface} :
            LET cands == SelectCandidates(netInterfaces.list, filterf, ts)
            IN  /\ tsiface' = ts
                /\ resultsCap' = 1
                /\ candidates' = cands
                /\ dials' = [i \in 1 .. Len(cands) |-> "dialing"]
                /\ IF Len(cands) = 0
                   THEN /\ probeRet' = [res |-> <<>>, err |-> "no candidate interfaces"]
                        /\ probePc' = "probed"
                   ELSE /\ probePc' = "collect"
                        /\ UNCHANGED probeRet
    /\ UNCHANGED <<deltaVars, monVars, netInterfaces, filterf, sortf, results, out,
                   hintRead, findRet>>

ProbeStartNoEmptyCheck ==
    /\ probePc = "idle"
    /\ IF netInterfaces.err
       THEN /\ probeRet' = [res |-> <<>>, err |-> "net.Interfaces"]
            /\ probePc' = "probed"
            /\ UNCHANGED <<tsiface, candidates, resultsCap, dials>>
       ELSE \E ts \in {tailscaleInterface(netInterfaces.list), NoIface} :
            LET cands == SelectCandidates(netInterfaces.list, filterf, ts)
            IN  /\ tsiface' = ts
                /\ resultsCap' = Len(netInterfaces.list)
                /\ candidates' = cands
                /\ dials' = [i \in 1 .. Len(cands) |-> "dialing"]
                /\ probePc' = "collect"
                /\ UNCHANGED probeRet
    /\ UNCHANGED <<deltaVars, monVars, netInterfaces, filterf, sortf, results, out,
                   hintRead, findRet>>

\* findInterfaceThatCanReach calls probeInterfacesReachability, which runs
\* up to its collecting loop (lines 733-807): it lists the interfaces, makes
\* the channel, asks for the Tailscale interface (whose own listing can
\* fail), selects the candidates, spawns a goroutine for each and returns an
\* error if there is none.
ProbeStart ==
    /\ probePc = "idle"
    /\ IF netInterfaces.err
       THEN /\ probeRet' = [res |-> <<>>, err |-> "net.Interfaces"]
            /\ probePc' = "probed"
            /\ UNCHANGED <<tsiface, candidates, resultsCap, dials>>
       ELSE \E ts \in {tailscaleInterface(netInterfaces.list), NoIface} :
            LET cands == SelectCandidates(netInterfaces.list, filterf, ts)
            IN  /\ tsiface' = ts
                /\ resultsCap' = Len(netInterfaces.list)
                /\ candidates' = cands
                /\ dials' = [i \in 1 .. Len(cands) |-> "dialing"]
                /\ IF Len(cands) = 0
                   THEN /\ probeRet' = [res |-> <<>>, err |-> "no candidate interfaces"]
                        /\ probePc' = "probed"
                   ELSE /\ probePc' = "collect"
                        /\ UNCHANGED probeRet
    /\ UNCHANGED <<deltaVars, monVars, netInterfaces, filterf, sortf, results, out,
                   hintRead, findRet>>

\* The goroutine of candidate i (lines 775-801): its dial ends, within its
\* own deadline, and it sends what came of it to results.
DialDone(i) ==
    /\ i \in DOMAIN dials
    /\ dials[i] = "dialing"
    /\ Len(results) < resultsCap
    /\ \E ok \in BOOLEAN :
          results' = Append(results, [iface |-> candidates[i], reachable |-> ok,
                                      err |-> IF ok THEN "nil" ELSE "dial"])
    /\ dials' = [dials EXCEPT ![i] = "done"]
    /\ UNCHANGED <<deltaVars, monVars, netInterfaces, filterf, sortf, probePc,
                   tsiface, candidates, resultsCap, out, probeRet, hintRead, findRet>>

\* The collecting loop (lines 812-820): case r := <-results.
ProbeReceive ==
    /\ probePc = "collect"
    /\ Len(out) < Len(candidates)
    /\ results # <<>>
    /\ out' = Append(out, Head(results))
    /\ results' = Tail(results)
    /\ UNCHANGED <<deltaVars, monVars, netInterfaces, filterf, sortf, probePc,
                   tsiface, candidates, resultsCap, dials, probeRet, hintRead,
                   findRet>>

ProbeTimeoutWaitsForDials ==
    /\ probePc = "collect"
    /\ Len(out) < Len(candidates)
    /\ \A i \in DOMAIN dials : dials[i] = "done"
    /\ probeRet' = [res |-> out, err |-> "timeout"]
    /\ probePc' = "probed"
    /\ UNCHANGED <<deltaVars, monVars, netInterfaces, filterf, sortf, tsiface,
                   candidates, resultsCap, results, dials, out, hintRead, findRet>>

\* The collecting loop (lines 812-820): case <-timeout.
ProbeTimeout ==
    /\ probePc = "collect"
    /\ Len(out) < Len(candidates)
    /\ probeRet' = [res |-> out, err |-> "timeout"]
    /\ probePc' = "probed"
    /\ UNCHANGED <<deltaVars, monVars, netInterfaces, filterf, sortf, tsiface,
                   candidates, resultsCap, results, dials, out, hintRead, findRet>>

\* The collecting loop ends with every result received (lines 812, 822).
ProbeComplete ==
    /\ probePc = "collect"
    /\ Len(out) = Len(candidates)
    /\ probeRet' = [res |-> out, err |-> "nil"]
    /\ probePc' = "probed"
    /\ UNCHANGED <<deltaVars, monVars, netInterfaces, filterf, sortf, tsiface,
                   candidates, resultsCap, results, dials, out, hintRead, findRet>>

ChosenIfaceIgnoresHint(res, hint) == res[1].iface.index

\* The interface lines 912-924 choose among res: the first, or the first
\* whose Index the hint function returned.
ChosenIface(res, hint) ==
    LET hits == { i \in 1 .. Len(res) : res[i].iface.index = hint.idx }
    IN  IF hint.set /\ hits # {}
        THEN res[CHOOSE i \in hits : \A j \in hits : i <= j].iface.index
        ELSE res[1].iface.index

FindSurfacesDialError ==
    /\ probePc = "probed"
    /\ probePc' = "returned"
    /\ IF probeRet.err # "nil"
       THEN /\ findRet' = [iface |-> NoIface, err |-> probeRet.err]
            /\ UNCHANGED hintRead
       ELSE LET reachable == { r \in { probeRet.res[i] : i \in 1 .. Len(probeRet.res) } :
                                    r.reachable }
                res == filterInPlace(probeRet.res, reachable)
            IN  IF Len(res) = 0
                THEN /\ findRet' = [iface |-> NoIface, err |-> probeRet.res[1].err]
                     /\ UNCHANGED hintRead
                ELSE \E hint \in HintValues :
                     /\ hintRead' = hint
                     /\ findRet' =
                          [iface |-> ChosenIface(IF sortf # "nil"
                                                 THEN CallSorter(sortf, res)
                                                 ELSE res, hint),
                           err |-> "nil"]
    /\ UNCHANGED <<deltaVars, monVars, netInterfaces, filterf, sortf, tsiface,
                   candidates, resultsCap, results, dials, out, probeRet>>

\* findInterfaceThatCanReach after probeInterfacesReachability returned
\* (lines 883-927).
Find ==
    /\ probePc = "probed"
    /\ probePc' = "returned"
    /\ IF probeRet.err # "nil"
       THEN /\ findRet' = [iface |-> NoIface, err |-> probeRet.err]
            /\ UNCHANGED hintRead
       ELSE LET reachable == { r \in { probeRet.res[i] : i \in 1 .. Len(probeRet.res) } :
                                    r.reachable }
                res == filterInPlace(probeRet.res, reachable)
            IN  IF Len(res) = 0
                THEN /\ findRet' = [iface |-> NoIface, err |-> "nil"]
                     /\ UNCHANGED hintRead
                ELSE \E hint \in HintValues :
                     /\ hintRead' = hint
                     /\ findRet' =
                          [iface |-> ChosenIface(IF sortf # "nil"
                                                 THEN CallSorter(sortf, res)
                                                 ELSE res, hint),
                           err |-> "nil"]
    /\ UNCHANGED <<deltaVars, monVars, netInterfaces, filterf, sortf, tsiface,
                   candidates, resultsCap, results, dials, out, probeRet>>

ProbeNext ==
    \/ ProbeStart
    \/ \E i \in 1 .. MaxIfaces : DialDone(i)
    \/ ProbeReceive
    \/ ProbeTimeout
    \/ ProbeComplete
    \/ Find

(***************************************************************************)
(* The specifications.                                                     *)
(***************************************************************************)
\* The Monitor, driven by its callers, the osMon, the timer and the clock.
\* A Monitor whose callers register one callback.
Init == MonInit /\ DeltaIdle /\ ProbeIdle /\ registrants = {1}

Spec == Init /\ [][MonNext]_vars

\* What the pump goroutine does by itself: messages and transient errors of
\* an open osMon are the osMon's to send or not.
PumpSteps == PumpLoop \/ PumpReceiveClosed \/ PumpSleep \/ PumpPoll

\* What the debounce goroutine does by itself, but for the stop cases of its
\* two selects.
DebounceSteps ==
    DebounceSelectChange \/ DebounceSnapshot \/ HandleLock \/ HandleBody
        \/ DebounceWaitElapsed

DebounceStops == DebounceSelectStop \/ DebounceWaitStop

\* A Monitor made by New in a build for android, ios or plan9, where
\* shouldMonitorTimeJump is false (line 623) and no timer runs.
FairInit == Init /\ ~static /\ ~shouldMonitorTimeJump

\* That Monitor with the scheduling the Go runtime gives: a goroutine that can
\* take a step takes it eventually, a sleep and a debounce wait end, a Close
\* call under way goes on, Receive of a closed osMon returns, a spawned
\* callback goroutine starts, and a select whose stop case is ready again and
\* again takes it in the end (the runtime picks among the ready cases at
\* random).  Nothing is assumed of the callers, of the osMon's notifications
\* or of how long a callback runs.
FairSpec ==
    /\ FairInit /\ [][CoreNext]_vars
    /\ WF_vars(PumpSteps)
    /\ WF_vars(DebounceSteps)
    /\ SF_vars(DebounceStops)
    /\ WF_vars(\E t \in tasks : CallbackStart(t))
    /\ WF_vars(\E c \in Closers : CloseBody(c) \/ CloseWait(c))

\* That Monitor in a build with the port mapper, whose callers also call
\* GatewayAndSelfIP.
GatewayNext == CoreNext \/ GatewayAndSelfIP

GatewayInit == Init /\ ~static /\ ~shouldMonitorTimeJump

SpecGateway == GatewayInit /\ [][GatewayNext]_vars

\* That Monitor when its callers also set the Tailscale interface name, at
\* any time.
NamesNext ==
    \/ CoreNext
    \/ \E ifName \in TsIfNames : SetTailscaleInterfaceNameLock(ifName)
    \/ \E ifName \in TsIfNames : SetTailscaleInterfaceNameBody(ifName)

NamesInit == Init /\ ~static /\ ~shouldMonitorTimeJump

SpecNames == NamesInit /\ [][NamesNext]_vars

\* The steps of a Monitor made by New that nobody closes, in a build that
\* watches the wall clock and has the port mapper.
RunningNext ==
    \/ \E h \in Handles : RegisterChangeCallback(h)
    \/ \E h \in Handles : Unregister(h)
    \/ Start
    \/ InjectEvent
    \/ Poll
    \/ GatewayAndSelfIP
    \/ PumpLoop
    \/ PumpReceiveMessage
    \/ PumpReceiveError
    \/ PumpSleep
    \/ PumpPoll
    \/ DebounceSelectChange
    \/ DebounceSnapshot
    \/ HandleLock
    \/ HandleBody
    \/ DebounceWaitElapsed
    \/ \E t \in tasks : CallbackStart(t)
    \/ \E t \in tasks : CallbackReturn(t)
    \/ ClockJump
    \/ TimerFire
    \/ PollWallTime

RunningInit == Init /\ ~static /\ shouldMonitorTimeJump

SpecRunning == RunningInit /\ [][RunningNext]_vars

\* A Monitor made by New in such a build whose callers register the callbacks
\* of all handles.
CbInit ==
    /\ MonInit /\ DeltaIdle /\ ProbeIdle
    /\ registrants = Handles /\ ~static /\ ~shouldMonitorTimeJump

SpecCallbacks == CbInit /\ [][CoreNext]_vars

\* NewChangeDelta, called once with arguments drawn from ArgPairs.
InitDelta == DeltaInit /\ MonIdle /\ ProbeIdle

SpecDelta == InitDelta /\ [][DeltaNext]_vars

\* findInterfaceThatCanReach, called once with options and on a host drawn
\* from ProbeInit.
InitProbe == ProbeInit /\ DeltaIdle /\ MonIdle

SpecProbe == InitProbe /\ [][ProbeNext]_vars

\* What the goroutine that called findInterfaceThatCanReach does by itself.
CallerSteps == ProbeStart \/ ProbeReceive \/ ProbeTimeout \/ ProbeComplete \/ Find

\* That call with the scheduling the Go runtime gives: the calling goroutine
\* goes on when it can, and the channel of time.After(600 ms) becomes ready,
\* so that a select which waits on it does not wait for ever.  Nothing is
\* assumed of the probe goroutines: a dial may never end.
FairSpecProbe == InitProbe /\ [][ProbeNext]_vars /\ WF_vars(CallerSteps)

(***************************************************************************)
(* The claims.                                                             *)
(***************************************************************************)
\* The Close call that closes the Monitor; the other one finds it closed.
ClosingCall == "closer1"

SecondCall == "closer2"

\* A step in which a callback goroutine starts to run its callback.
CallbackStarts ==
    \E t \in tasks : t.st = "spawned" /\ tasks' = (tasks \ {t}) \cup {[t EXCEPT !.st = "running"]}

\* A step in which handlePotentialChange runs for a round that was not forced.
UnforcedHandleStep == dbPc = "locked" /\ dbPc' = "wait" /\ ~forceCallbacks

\* C1 as claimed: on a started Monitor that is not closed, every InjectEvent
\* call is followed by an invocation of each registered callback.
C1_InjectEventInvokesCallback == \A h \in Handles : (h \in owed) ~> (h \notin owed)

\* C2 as claimed: a round that was not forced and whose snapshot equals the
\* stored State spawns no callback goroutine and leaves the stored State
\* unchanged.
C2_UnforcedRoundOnlyOnChange ==
    [][(UnforcedHandleStep /\ StateEqual(ifState, newState))
        => UNCHANGED <<tasks, ifState>>]_vars

\* C3 as claimed: once the Close call that closed the Monitor has returned, no
\* callback starts to run.
C3_NoCallbackStartsAfterClose ==
    [][closePc[ClosingCall] = "returned" => ~CallbackStarts]_vars

\* C3 amended: once the Close call that closed the Monitor has returned, no
\* delta is dispatched and no callback goroutine is spawned; a goroutine
\* spawned before may still start its callback.
C3_NoDispatchAfterClose ==
    [][closePc[ClosingCall] = "returned" =>
        /\ nDispatch' = nDispatch
        /\ { t \in tasks' : t.st = "spawned" } \subseteq tasks]_vars

\* C3's case: Close has returned on a started Monitor that dispatched a delta,
\* and a callback goroutine of that delta has not started yet.
C3_Witness ==
    /\ closePc[ClosingCall] = "returned"
    /\ closeStarted[ClosingCall]
    /\ \E t \in tasks : t.st = "spawned"

\* C4 as claimed: both Close calls return nil.
C4_BothCloseReturnNil == \A c \in Closers : closePc[c] = "returned" => closeRet[c] = "nil"

\* C4 amended: the first Close returns what the osMon's Close returned, nil or
\* its error; the second returns nil and changes nothing: stop is not
\* signalled again, the osMon is closed once, nothing is dispatched.
C4_SecondCloseHasNoEffect ==
    /\ [](/\ omCloseCalls <= 1
          /\ closePc[SecondCall] = "returned" => closeRet[SecondCall] = "nil"
          /\ closePc[SecondCall] \in {"idle", "returned"})
    /\ [][closePc'[SecondCall] # closePc[SecondCall] =>
            UNCHANGED <<flagVars, lifeVars, timerVars, pumpVars, dbVars, stateVars,
                        dispatchVars, change, mu, cbs>>]_vars

\* C4's case: both Close calls have returned, the first with the osMon's error.
C4_Witness ==
    /\ \A c \in Closers : closePc[c] = "returned"
    /\ closeRet[ClosingCall] = "error"
    /\ closeRet[SecondCall] = "nil"
    /\ started

\* C5: started and closed are never reset, Start on a started or closed
\* Monitor spawns no goroutine and creates no timer, and there is never more
\* than one pump, one debounce goroutine and one timer.
C5_Lifecycle ==
    /\ [](/\ spawned <= 2
          /\ timersCreated <= 1
          /\ spawned = (IF started THEN 2 ELSE 0)
          /\ ~started => (pumpPc = "none" /\ dbPc = "none" /\ wallTimer = "nil"))
    /\ [][/\ started => started'
          /\ closed => closed'
          /\ (started \/ closed) => UNCHANGED <<spawned, timersCreated>>]_vars

\* C5's case: the Monitor was closed without having been started; Start can
\* still be called and starts nothing.
C5_Witness == closed /\ ~started /\ closePc[ClosingCall] = "returned" /\ mu = "free"

\* C6 as claimed: when a Close call on a started Monitor has returned, the
\* pump and the debounce goroutine have exited.
C6_EveryCloseWaitsForGoroutines ==
    \A c \in Closers :
        (closePc[c] = "returned" /\ started) => (pumpPc = "done" /\ dbPc = "done")

\* C6 amended: every Close call returns, and when the call that closed a
\* started Monitor returns, the pump and the debounce goroutine have exited; a
\* second call may return while they still run.
C6_CloseReturnsAfterGoroutines ==
    /\ (closePc[ClosingCall] \in {"locked", "wait"}) ~> (closePc[ClosingCall] = "returned")
    /\ []((closePc[ClosingCall] = "returned" /\ closeStarted[ClosingCall])
            => (pumpPc = "done" /\ dbPc = "done" /\ goroutines = 0))

\* C6's case: Close has returned on a Monitor that was started and had
\* dispatched a delta.
C6_Witness ==
    /\ closePc[ClosingCall] = "returned"
    /\ closeStarted[ClosingCall]
    /\ nDispatch > 0
    /\ pumpPc = "done"
    /\ dbPc = "done"

\* Whether the States o and n, both non-nil, differ in the address list of
\* the interface called name and in nothing else.
DiffersOnlyInAddrsOf(o, n, name) ==
    /\ ~o.nil /\ ~n.nil
    /\ name \in DOMAIN o.InterfaceIPs
    /\ name \in DOMAIN n.InterfaceIPs
    /\ o.InterfaceIPs[name] # n.InterfaceIPs[name]
    /\ n = [o EXCEPT !.InterfaceIPs[name] = n.InterfaceIPs[name]]

\* C7: NewChangeDelta(S, S, false, "") of a non-nil State S returns a delta
\* whose RebindLikelyRequired is false.
C7_SameStateNoRebind ==
    (called /\ ~args.old.nil /\ args.new = args.old /\ ~args.timeJumped
        /\ args.tsIfName = "")
    => ~cd.RebindLikelyRequired

\* C7's case: the call was made with twice the same State, which has an
\* interface with two addresses, one of them not routable, and no hook is set.
C7_Witness ==
    /\ called
    /\ ~args.old.nil /\ args.new = args.old /\ ~args.timeJumped /\ args.tsIfName = ""
    /\ IsInterestingInterface = "nil"
    /\ "eth0" \in DOMAIN args.old.InterfaceIPs
    /\ Len(args.old.InterfaceIPs["eth0"]) = 2
    /\ Len(filterRoutableIPs(args.old.InterfaceIPs["eth0"])) = 1
    /\ ~cd.RebindLikelyRequired

\* C8 as claimed: whenever old is nil, whatever new, timeJumped and tsIfName
\* are, the delta NewChangeDelta returns has RebindLikelyRequired set.
C8_NilOldAlwaysRebind == (called /\ args.old.nil) => cd.RebindLikelyRequired

\* C9 as claimed: the delta NewChangeDelta returns has RebindLikelyRequired
\* set exactly if old is nil, new is nil, timeJumped is set or one of the
\* five computed flags is set.
C9_RebindIffAnyCause ==
    called =>
        (cd.RebindLikelyRequired <=>
            \/ args.old.nil
            \/ args.new.nil
            \/ args.timeJumped
            \/ cd.DefaultInterfaceChanged
            \/ cd.InterfaceIPsChanged
            \/ cd.IsLessExpensive
            \/ cd.HasPACOrProxyConfigChanged
            \/ cd.AvailableProtocolsChanged)

\* C10: when old and new are non-nil and differ only in the addresses of the
\* interface named tsIfName, the delta has InterfaceIPsChanged false.
C10_OwnInterfaceIgnored ==
    (called /\ args.tsIfName # ""
        /\ DiffersOnlyInAddrsOf(args.old, args.new, args.tsIfName))
    => ~cd.InterfaceIPsChanged

\* C10's case: the call was made with two States whose Tailscale interface
\* has different routable addresses, next to another interface with a
\* routable address, and no hook is set.
C10_Witness ==
    /\ called
    /\ args.tsIfName = "ts0"
    /\ DiffersOnlyInAddrsOf(args.old, args.new, "ts0")
    /\ IsInterestingInterface = "nil"
    /\ Len(filterRoutableIPs(args.old.InterfaceIPs["ts0"])) = 1
    /\ Len(filterRoutableIPs(args.new.InterfaceIPs["ts0"])) = 1
    /\ "eth0" \in DOMAIN args.new.InterfaceIPs
    /\ Len(filterRoutableIPs(args.new.InterfaceIPs["eth0"])) > 0
    /\ ~cd.InterfaceIPsChanged

\* Whether State st has no interface called name, or has one whose address
\* list is not empty and holds link-local multicast addresses only.
AbsentOrMulticastOnly(st, name) ==
    \/ name \notin DOMAIN st.Interface
    \/ /\ name \in DOMAIN st.InterfaceIPs
       /\ Len(st.InterfaceIPs[name]) > 0
       /\ \A i \in 1 .. Len(st.InterfaceIPs[name]) :
            IsLinkLocalMulticast(st.InterfaceIPs[name][i].addr)

\* State st without the interface called name.
WithoutInterface(st, name) ==
    [st EXCEPT !.Interface = [n \in DOMAIN st.Interface \ {name} |-> st.Interface[n]],
               !.InterfaceIPs =
                   [n \in DOMAIN st.InterfaceIPs \ {name} |-> st.InterfaceIPs[n]]]

\* C11: when old and new are non-nil and equal but for an interface that is
\* missing or has link-local multicast addresses only on either side (it is
\* added, removed, or it or its addresses change), the delta has
\* InterfaceIPsChanged false.
C11_MulticastOnlyInterfaceIgnored ==
    (/\ called
     /\ ~args.old.nil /\ ~args.new.nil
     /\ AbsentOrMulticastOnly(args.old, "eth0")
     /\ AbsentOrMulticastOnly(args.new, "eth0")
     /\ WithoutInterface(args.old, "eth0") = WithoutInterface(args.new, "eth0"))
    => ~cd.InterfaceIPsChanged

\* C11's case: an interface with one link-local multicast address was
\* replaced by one with another MTU and two such addresses, next to the
\* unchanged Tailscale interface, and no hook is set.
C11_Witness ==
    /\ called
    /\ ~args.old.nil /\ ~args.new.nil
    /\ IsInterestingInterface = "nil"
    /\ "eth0" \in DOMAIN args.old.InterfaceIPs
    /\ "eth0" \in DOMAIN args.new.InterfaceIPs
    /\ AbsentOrMulticastOnly(args.old, "eth0")
    /\ AbsentOrMulticastOnly(args.new, "eth0")
    /\ args.old.Interface["eth0"].MTU # args.new.Interface["eth0"].MTU
    /\ Len(args.old.InterfaceIPs["eth0"]) = 1
    /\ Len(args.new.InterfaceIPs["eth0"]) = 2
    /\ "ts0" \in DOMAIN args.new.Interface
    /\ WithoutInterface(args.old, "eth0") = WithoutInterface(args.new, "eth0")
    /\ ~cd.InterfaceIPsChanged

\* A step in which handlePotentialChange dispatches a delta.
DispatchStep == nDispatch' # nDispatch

\* C12: a dispatched delta has the State stored before the round as Old and
\* the fresh snapshot as New, and the snapshot becomes the stored State in the
\* same step; so a delta's Old is the New of the delta dispatched before it,
\* deltas are numbered and dispatched one at a time in the order they are
\* computed, and when the default route went from "eth0" to "wlan0" the
\* delta has DefaultInterfaceChanged and RebindLikelyRequired set.
C12_DeltaChainsStoredStates ==
    /\ [][DispatchStep =>
            /\ nDispatch' = nDispatch + 1
            /\ lastDelta'.Old = ifState
            /\ lastDelta'.New = newState
            /\ ifState' = newState
            /\ nDispatch > 0 => lastDelta'.Old = lastDelta.New
            /\ \A t \in tasks' \ tasks : t.id = nDispatch' /\ t.d = lastDelta'
            /\ (ifState.DefaultRouteInterface = "eth0"
                    /\ newState.DefaultRouteInterface = "wlan0")
                => /\ lastDelta'.Old.DefaultRouteInterface = "eth0"
                   /\ lastDelta'.New.DefaultRouteInterface = "wlan0"
                   /\ lastDelta'.DefaultInterfaceChanged
                   /\ lastDelta'.RebindLikelyRequired]_vars
    /\ [](nDispatch > 0 => lastDelta.New = ifState)

\* C12's case: two deltas were dispatched, the second one in a forced round in
\* which the default route went from "eth0" to "wlan0", and its callback
\* goroutine is spawned.
C12_Witness ==
    /\ nDispatch = 2
    /\ lastDelta.Old.DefaultRouteInterface = "eth0"
    /\ lastDelta.New.DefaultRouteInterface = "wlan0"
    /\ lastDelta.DefaultInterfaceChanged
    /\ lastDelta.RebindLikelyRequired
    /\ ~lastDelta.TimeJumped
    /\ \E t \in tasks : t.id = 2 /\ t.d = lastDelta

\* C13: a dispatch spawns one goroutine for each callback registered at that
\* moment, all with the one delta just computed, and nothing else spawns a
\* callback goroutine; a goroutine starts its callback once, nothing holds it
\* back, and no callback is run twice for a delta.
C13_OneInvocationPerCallbackPerDelta ==
    /\ [][IF DispatchStep
          THEN /\ tasks \subseteq tasks'
               /\ tasks' \ tasks =
                    { [id |-> nDispatch', h |-> h, st |-> "spawned", d |-> lastDelta'] :
                        h \in cbs }
          ELSE tasks' \ tasks \subseteq
                    { [t EXCEPT !.st = "running"] : t \in { u \in tasks : u.st = "spawned" } }
         ]_vars
    /\ [](\A t \in tasks : t.id <= nDispatch)
    /\ [](\A t \in tasks, u \in tasks : (t.id = u.id /\ t.h = u.h) => t = u)
    /\ [](\A t \in tasks, u \in tasks : t.id = u.id => t.d = u.d)
    /\ [](\A t \in tasks : t.st = "spawned" => ENABLED CallbackStart(t))

\* C13's case: a delta was dispatched with two callbacks registered; the
\* callback of one runs, the goroutine of the other has not started yet, and
\* both have the same delta.
C13_Witness ==
    /\ nDispatch > 0
    /\ \E t \in tasks, u \in tasks :
        /\ t.id = u.id /\ t.h # u.h
        /\ t.st = "running" /\ u.st = "spawned"
        /\ t.d = u.d

\* Whether a callback is running, which it may do for ever.
CallbackRunning == \E t \in tasks : t.st = "running"

\* C14: while a callback runs, however long, the mutex is not held on its
\* behalf, so Register, unregister and InterfaceState get the lock as soon as
\* it is free; the debounce goroutine can receive the next signal, take the
\* lock and dispatch; InjectEvent's and Poll's send leaves the channel with
\* at most one signal without waiting; and the Close call under way returns.
C14_CallbacksBlockNothing ==
    /\ [](CallbackRunning =>
            /\ mu \in {"free", "debounce"} \cup Closers
            /\ mu = "free" =>
                 \A h \in registrants :
                    IF h \in cbs THEN ENABLED Unregister(h)
                    ELSE ENABLED RegisterChangeCallback(h)
            /\ (dbPc = "select" /\ change # <<>>) => ENABLED DebounceSelectChange
            /\ dbPc = "snapshot" => ENABLED DebounceSnapshot
            /\ (dbPc = "handle" /\ mu = "free") => ENABLED HandleLock
            /\ dbPc = "locked" => ENABLED HandleBody
            /\ dbPc = "wait" => ENABLED DebounceWaitElapsed
            /\ Len(TrySend(change, TRUE)) = 1 /\ Len(TrySend(change, FALSE)) = 1
            /\ \A c \in Closers :
                 (closePc[c] = "wait" /\ goroutines = 0) => ENABLED CloseWait(c))
    /\ (CallbackRunning /\ closePc[ClosingCall] \in {"locked", "wait"})
            ~> (closePc[ClosingCall] = "returned")

\* C14's case: the callback started for the first delta still runs, a second
\* delta has been dispatched since, and Close has returned.
C14_Witness ==
    /\ nDispatch = 2
    /\ \E t \in tasks : t.id = 1 /\ t.st = "running"
    /\ closePc[ClosingCall] = "returned"
    /\ closeStarted[ClosingCall]

\* C15: unregister removes its own handle and nothing else, and changes
\* nothing when the handle is gone already; a callback that runs can call it
\* as soon as the lock is free; a delta dispatched after unregister returned
\* spawns goroutines for the callbacks still registered only.
C15_UnregisterRemovesOnlyItsCallback ==
    /\ [][\A h \in Handles :
            Unregister(h) =>
                /\ cbs' = cbs \ {h}
                /\ h \notin cbs => cbs' = cbs
                /\ UNCHANGED <<tasks, nDispatch, lastDelta, ifState, change, mu>>]_vars
    /\ [][DispatchStep => \A t \in tasks' \ tasks : t.h \in cbs]_vars
    /\ [](\A t \in tasks :
            (t.st = "running" /\ mu = "free") => ENABLED Unregister(t.h))

\* C15's case: while its callback ran for the first delta, handle 1 was
\* unregistered; the second delta was then dispatched to the callback of
\* handle 2, which is still registered.
C15_Witness ==
    /\ cbs = {2}
    /\ nDispatch = 2
    /\ \E t \in tasks : t.h = 1 /\ t.id = 1 /\ t.st = "running"
    /\ \E u \in tasks : u.h = 2 /\ u.id = 2
    /\ \A u \in tasks : u.id = 2 => u.h = 2

\* C16: the channel m.change never holds more than one signal; InjectEvent
\* and Poll can be called in every state of a Monitor made by New and return
\* in one step, which leaves a pending signal as it is, else puts theirs, and
\* touches neither the lock nor the goroutines.
C16_SendsNeverBlock ==
    /\ [](Len(change) <= 1)
    /\ []((~static /\ EnvMayAct) => (ENABLED InjectEvent /\ ENABLED Poll))
    /\ [][(InjectEvent \/ Poll) =>
            /\ Len(change') = 1
            /\ change # <<>> => change' = change
            /\ UNCHANGED <<mu, pumpPc, dbPc, goroutines, closePc, tasks>>]_vars

\* C16's case: InjectEvent was called on a started Monitor while a Poll
\* signal was pending and the debounce goroutine was in its wait.
C16_Witness ==
    /\ change = <<FALSE>>
    /\ dbPc = "wait"
    /\ owed # {}
    /\ started /\ ~closed

\* C17 as claimed: the stored State of a Monitor that New or NewStatic
\* returned is never nil.
C17_StoredStateNeverNil == ~ifState.nil

\* C17 amended: the stored State of a Monitor made by New is never nil, that
\* of a static Monitor stays what NewStatic left, nil if its snapshot failed,
\* and every delta handed to a callback has a non-nil New.
C17_StoredStateOfNewNeverNil ==
    /\ [](~static => ~ifState.nil)
    /\ [][static => ifState' = ifState]_vars
    /\ [](nDispatch > 0 => ~lastDelta.New.nil)
    /\ [](\A t \in tasks : ~t.d.New.nil)

\* C17's case: a Monitor made by New dispatched a delta; its callback runs
\* with a delta whose New and Old are not nil, and the stored State is not nil.
C17_Witness ==
    /\ ~static
    /\ nDispatch = 1
    /\ dbPc = "wait" /\ ifState = InitialState /\ change = <<>>
    /\ \E t \in tasks : t.st = "running" /\ ~t.d.New.nil /\ ~t.d.Old.nil
    /\ ~ifState.nil

\* A dispatch whose delta says that a rebind is likely required.
RebindDispatchStep == DispatchStep /\ lastDelta'.RebindLikelyRequired

\* C18: a GatewayAndSelfIP call that finds the cache valid answers with the
\* cached value and ok, asks LikelyHomeRouterIP nothing and leaves the cache
\* as it is; a call that finds it invalid asks, and the cache is valid after
\* it exactly if the answer was ok, in which case it holds the answer.  The
\* cache turns invalid in the dispatch of a delta whose RebindLikelyRequired
\* is true, in every such dispatch, and in no other step; it turns valid in
\* no step but a GatewayAndSelfIP call.
C18_GatewayCache ==
    /\ [][GatewayAndSelfIP =>
            IF gwValid
            THEN /\ gwRet' = [call |-> "cached", gw |-> gw, ok |-> TRUE]
                 /\ UNCHANGED <<gwValid, gw>>
            ELSE /\ gwRet'.call = "queried"
                 /\ gwValid' = gwRet'.ok
                 /\ gwRet'.ok => gw' = gwRet'.gw]_vars
    /\ [][RebindDispatchStep => ~gwValid']_vars
    /\ [][(gwValid /\ ~gwValid') => RebindDispatchStep]_vars
    /\ [][(~gwValid /\ gwValid') => GatewayAndSelfIP]_vars
    /\ [](gwValid => gw \in Gateways)

\* C18's case: after an answer was cached, a delta that requires a rebind was
\* dispatched and the next call asked LikelyHomeRouterIP again, which failed:
\* the cache still holds the old gateway and is not valid.
C18_Witness ==
    /\ nDispatch = 1
    /\ lastDelta.RebindLikelyRequired
    /\ gwRet = [call |-> "queried", gw |-> ZeroAddr, ok |-> FALSE]
    /\ gw \in Gateways
    /\ ~gwValid

\* C19: a static Monitor, whatever was called on it, has no pump, debounce or
\* callback goroutine and no timer, has dispatched no delta, holds no
\* callback, is neither started nor closed, keeps the State that NewStatic
\* stored, has returned nil from every Close call that returned, and has
\* answered GatewayAndSelfIP, if called, with the zero values and ok = false.
C19_StaticMonitorInert ==
    /\ [](static =>
            /\ goroutines = 0 /\ spawned = 0
            /\ pumpPc = "none" /\ dbPc = "none"
            /\ tasks = {} /\ nDispatch = 0 /\ owed = {}
            /\ wallTimer = "nil" /\ timersCreated = 0
            /\ cbs = {} /\ change = <<>>
            /\ ~started /\ ~closed /\ ~stop
            /\ \A c \in Closers : closeRet[c] \in {"none", "nil"}
            /\ \A c \in Closers : closePc[c] = "returned" => closeRet[c] = "nil"
            /\ gwRet \in {NoGatewayCall, [call |-> "zero", gw |-> ZeroAddr, ok |-> FALSE]}
            /\ ~gwValid)
    /\ [][static => ifState' = ifState /\ ifState \in {InitialState, NilState}]_vars

\* C19's case: on a static Monitor, Start, InjectEvent, Poll,
\* RegisterChangeCallback and the function it returned were called, Close
\* twice, and GatewayAndSelfIP.
C19_Witness ==
    /\ static
    /\ staticCalls = StaticMethods
    /\ \A c \in Closers : closePc[c] = "returned" /\ closeRet[c] = "nil"
    /\ gwRet.call = "zero" /\ ~gwRet.ok
    /\ goroutines = 0 /\ tasks = {} /\ wallTimer = "nil"

\* No interface of the host is up, running and not loopback.
NoUsableInterface ==
    \A i \in 1 .. Len(netInterfaces.list) :
        LET iface == netInterfaces.list[i]
        IN  ~iface.up \/ ~iface.running \/ iface.loopback

\* The caller's filter rejects every interface of the host.
FilterRejectsAll ==
    /\ filterf # "nil"
    /\ \A i \in 1 .. Len(netInterfaces.list) : ~CallFilter(filterf, netInterfaces.list[i])

\* The call has returned, the interfaces were listed, and none survived the
\* selection.
ReturnedWithoutCandidates ==
    /\ probePc = "returned"
    /\ ~netInterfaces.err
    /\ candidates = <<>>

\* C20 as claimed: when no interface is up, running and not loopback, or the
\* filter rejects every interface, findInterfaceThatCanReach returns
\* (nil, nil).
C20_NoCandidatesReturnsNilNil ==
    (probePc = "returned" /\ ~netInterfaces.err
        /\ (NoUsableInterface \/ FilterRejectsAll))
    => findRet = [iface |-> NoIface, err |-> "nil"]

\* C20 amended: in these two cases no interface survives the selection, and
\* whenever none survives findInterfaceThatCanReach returns no interface
\* together with the error "no candidate interfaces"; no probe goroutine was
\* spawned.
C20_NoCandidatesReturnsError ==
    /\ (~netInterfaces.err /\ probePc # "idle"
            /\ (NoUsableInterface \/ FilterRejectsAll))
        => candidates = <<>>
    /\ ReturnedWithoutCandidates
        => /\ findRet = [iface |-> NoIface, err |-> "no candidate interfaces"]
           /\ dials = <<>> /\ results = <<>>

\* C20's case: the host has two interfaces that are up, running, not
\* loopback and have an IPv4 address; the filter rejected both and the call
\* returned.
C20_Witness ==
    /\ ReturnedWithoutCandidates
    /\ FilterRejectsAll /\ ~NoUsableInterface
    /\ Len(netInterfaces.list) = MaxIfaces
    /\ \A i \in 1 .. MaxIfaces :
          /\ netInterfaces.list[i].up /\ netInterfaces.list[i].running
          /\ ~netInterfaces.list[i].loopback
          /\ netInterfaces.list[i].addrs = [err |-> FALSE, list |-> <<"v4">>]
    /\ findRet.iface = NoIface /\ findRet.err # "nil"

\* The call has returned after its collecting loop received the result of
\* every candidate, of which there is at least one, and each is a failure.
ReturnedWithAllFailed ==
    /\ probePc = "returned"
    /\ Len(candidates) >= 1
    /\ probeRet.err = "nil"
    /\ \A i \in 1 .. Len(probeRet.res) : ~probeRet.res[i].reachable

\* C21: when every candidate's probe reported a failure to the collecting
\* loop, findInterfaceThatCanReach returns no interface and no error; the
\* results hold one entry for each candidate, each with its dial error.
C21_AllFailedReturnsNilNil ==
    ReturnedWithAllFailed =>
        /\ findRet = [iface |-> NoIface, err |-> "nil"]
        /\ Len(probeRet.res) = Len(candidates)
        /\ \A i \in 1 .. Len(candidates) :
              \E k \in 1 .. Len(probeRet.res) :
                 /\ probeRet.res[k].iface = candidates[i]
                 /\ probeRet.res[k].err = "dial"

\* C21's case: two candidates were probed, both dials failed, and the call
\* returned.
C21_Witness ==
    /\ ReturnedWithAllFailed
    /\ Len(candidates) = 2
    /\ findRet.iface = NoIface /\ findRet.err = "nil"

\* C22: when the collecting loop took its timeout case, probing returned the
\* results received until then with the timeout error, and if one of them is
\* a success, findInterfaceThatCanReach does not return without an interface.
C22_PartialSuccessNotSwallowed ==
    (probePc = "returned" /\ probeRet.err = "timeout") =>
        /\ probeRet.res = out
        /\ Len(out) < Len(candidates)
        /\ (\E k \in 1 .. Len(probeRet.res) : probeRet.res[k].reachable)
              => findRet.iface # NoIface

\* An IPv4 address, or an IPv6 address that is globally routable.
IsV4OrGlobalV6(a) == a \in {"v4", "v4linklocal", "ts", "v6global"}

\* The interface is probed: it is a candidate, for which a goroutine was
\* spawned.
Probed(iface) ==
    \E k \in 1 .. Len(candidates) : candidates[k] = iface /\ k \in DOMAIN dials

\* C23: once the candidates are selected, an enumerated interface is probed
\* exactly if the filter, when given, accepts it, it is up, running and not
\* loopback, it is not the interface found to be Tailscale's, and one of its
\* addresses is an IPv4 address or a globally routable IPv6 address.
C23_ProbedIffEligible ==
    (probePc # "idle" /\ ~netInterfaces.err) =>
        \A i \in 1 .. Len(netInterfaces.list) :
            LET iface == netInterfaces.list[i]
            IN  Probed(iface) <=>
                  /\ filterf = "nil" \/ CallFilter(filterf, iface)
                  /\ iface.up /\ iface.running /\ ~iface.loopback
                  /\ ~(tsiface # NoIface /\ iface.index = tsiface)
                  /\ \E k \in 1 .. Len(iface.addrs.list) :
                        IsV4OrGlobalV6(iface.addrs.list[k])

\* The results of the probes that succeeded, in the order received, once
\* probing returned them without error.
Succeeded ==
    LET Ok(r) == r.reachable IN SelectSeq(probeRet.res, Ok)

\* The call has returned after probing ended without error and with a success.
ReturnedWithSuccess ==
    /\ probePc = "returned"
    /\ probeRet.err = "nil"
    /\ Succeeded # <<>>

\* The hint function is set and returned the Index of an interface whose
\* probe succeeded.
HintMatches ==
    /\ hintRead.set
    /\ \E k \in 1 .. Len(Succeeded) : Succeeded[k].iface.index = hintRead.idx

\* C24: when probing ended without error and some probe succeeded,
\* findInterfaceThatCanReach returns, without error, the interface whose Index
\* the hint function returned if that function is set and that interface is
\* among the successes, and else the first success in the sorter's order, or
\* in the order received if there is no sorter.
C24_HintThenSorterChoice ==
    ReturnedWithSuccess =>
        /\ findRet.err = "nil"
        /\ findRet.iface =
              IF HintMatches THEN hintRead.idx
              ELSE IF sortf = "nil" THEN Succeeded[1].iface.index
              ELSE CallSorter(sortf, Succeeded)[1].iface.index

\* C24's case: both probes succeeded, the sorter put one interface first and
\* the hint function returned the Index of the other, which was returned.
C24_Witness ==
    /\ ReturnedWithSuccess
    /\ Len(Succeeded) = 2
    /\ sortf = "reverse"
    /\ HintMatches
    /\ CallSorter(sortf, Succeeded)[1].iface.index # hintRead.idx
    /\ findRet.iface = hintRead.idx

\* C25: the call returns in the end, whatever the probe goroutines do; while
\* it collects, the caller can always take a step, be it a receive, the
\* timeout or the end of the loop; and when probing has returned for some
\* candidates, it has either received a result of each or taken the timeout.
C25_ProbingAlwaysReturns ==
    /\ <>(probePc = "returned")
    /\ [](probePc = "collect" =>
            ENABLED (ProbeReceive \/ ProbeTimeout \/ ProbeComplete))
    /\ []((probePc \in {"probed", "returned"} /\ candidates # <<>>) =>
            \/ probeRet.err = "nil" /\ Len(probeRet.res) = Len(candidates)
            \/ probeRet.err = "timeout" /\ Len(probeRet.res) < Len(candidates))

\* C25's case: the call returned with the timeout error while the probe
\* goroutines of both candidates were still dialing.
C25_Witness ==
    /\ probePc = "returned"
    /\ Len(candidates) = 2
    /\ \A i \in DOMAIN dials : dials[i] = "dialing"
    /\ probeRet = [res |-> <<>>, err |-> "timeout"]
    /\ findRet.err = "timeout"

\* A snapshot round starts: debounce takes the pending signal.
RoundStarts == dbPc = "select" /\ dbPc' = "snapshot"

\* C26: the pump, having received a notification that is not ignorable,
\* calls Poll; after that call a signal is pending, the pump's own or the one
\* that made it drop its own; a pending signal stays as it is until a round
\* starts, which takes it; and unless the Monitor is closed, a pending signal
\* of a started Monitor is taken in the end.  That round starts after the notification was
\* received.
C26_NotificationIsFollowedByRound ==
    /\ (pumpPc = "poll") ~> (pumpPc # "poll")
    /\ [][PumpPoll => Len(change') = 1]_vars
    /\ [][(change # <<>> /\ change' # change) => (RoundStarts /\ change' = <<>>)]_vars
    /\ (started /\ change # <<>>) ~> (change = <<>> \/ closed)

\* C26's case: on a started Monitor that is not closed, the pump received a
\* notification while a signal was pending and debounce was in its wait: the
\* pump's own signal is going to be dropped.
C26_Witness ==
    /\ started /\ ~closed
    /\ pumpPc = "poll"
    /\ change # <<>>
    /\ dbPc = "wait"

\* The steps of the debounce goroutine from one place to another; the step
\* from "wait" to "select" is the end of the wait of 1000 ms.
DebouncePcSteps ==
    { <<"none", "select">>, <<"select", "snapshot">>, <<"select", "done">>,
      <<"snapshot", "handle">>, <<"snapshot", "wait">>, <<"handle", "locked">>,
      <<"locked", "wait">>, <<"wait", "select">>, <<"wait", "done">> }

\* C27: a round ends in the wait, which debounce leaves only when the window
\* has elapsed or, stop being signalled, to return; a signal is taken only
\* at the first select, so none is taken during the wait, where at most one
\* is pending however many were sent; a delta is dispatched only in the step
\* that ends a round.  Hence the window elapses between two rounds and
\* between two dispatches.
C27_QuiescenceBetweenRounds ==
    /\ [][dbPc' # dbPc => <<dbPc, dbPc'>> \in DebouncePcSteps]_vars
    /\ [][(dbPc = "wait" /\ dbPc' = "done") => stop]_vars
    /\ [][(dbPc = "wait" /\ dbPc' = "select") => DebounceWaitElapsed]_vars
    /\ [][(change # <<>> /\ change' # change) =>
            (dbPc = "select" /\ dbPc' = "snapshot" /\ change' = <<>>)]_vars
    /\ [][DispatchStep =>
            (dbPc = "locked" /\ dbPc' = "wait" /\ nDispatch' = nDispatch + 1)]_vars
    /\ [](Len(change) <= 1)

\* C27's case: after a round that dispatched a delta, debounce is in its
\* wait, a signal has arrived and stays pending, and stop is not signalled.
C27_Witness ==
    /\ nDispatch = 1
    /\ dbPc = "wait"
    /\ change # <<>>
    /\ ~stop /\ ~closed

\* Receive returned an error to the pump.
ReceiveErrorStep == pumpPc = "receive" /\ pumpPc' \in {"sleep", "done"}

\* C28: the pump goroutine ends only when stop is signalled, so never while
\* the Monitor is not closed; a Receive error without stop sends it to its
\* sleep, from which it goes back to the loop and, unless stop is signalled
\* by then, to Receive; the step of a Receive error and the sleep after it
\* send no signal, dispatch no delta and spawn no callback goroutine.
C28_ReceiveErrorIsRetried ==
    /\ [][(pumpPc # "done" /\ pumpPc' = "done") => (stop /\ closed)]_vars
    /\ [][(ReceiveErrorStep /\ ~stop) => pumpPc' = "sleep"]_vars
    /\ [][(pumpPc = "sleep" /\ pumpPc' # "sleep") => pumpPc' = "loop"]_vars
    /\ [][(pumpPc = "loop" /\ pumpPc' # "loop" /\ ~stop) => pumpPc' = "receive"]_vars
    /\ [][(ReceiveErrorStep \/ PumpSleep) => UNCHANGED <<change, dispatchVars, owed>>]_vars
    /\ (pumpPc = "sleep") ~> (pumpPc = "receive" \/ stop)

\* C28's case: on a started Monitor that is not closed, Receive returned an
\* error and the pump sleeps; no signal is pending and nothing was dispatched.
C28_Witness ==
    /\ started /\ ~closed /\ ~stop
    /\ pumpPc = "sleep"
    /\ change = <<>> /\ nDispatch = 0 /\ tasks = {}

\* C29: the step in which debounce's snapshot fails takes debounce to its
\* wait and leaves the stored State, the gateway cache, the callbacks, the
\* time-jump flag, the dispatched deltas and the callback goroutines as they
\* are; a snapshot that is handed on is a State, not nil, and so is the New of
\* every delta a callback goroutine was given.
C29_FailedSnapshotChangesNothing ==
    /\ [][(dbPc = "snapshot" /\ dbPc' # "snapshot") =>
            \/ /\ dbPc' = "wait"
               /\ UNCHANGED <<ifState, gwValid, gw, cbs, timeJumped, tasks,
                              nDispatch, lastDelta, mu, change>>
            \/ /\ dbPc' = "handle"
               /\ ~newState'.nil]_vars
    /\ [](\A t \in tasks : ~t.d.New.nil /\ t.d.New \in MonitorStates)

\* C29's case: with a callback registered, the gateway cache valid and a time
\* jump pending, the forced round that the timer caused failed at its
\* snapshot: debounce waits, the flag is still set, the cache still valid,
\* and nothing was dispatched.
C29_Witness ==
    /\ dbPc = "wait"
    /\ timeJumped /\ change = <<>>
    /\ nDispatch = 0 /\ tasks = {}
    /\ gwValid /\ cbs # {}
    /\ ifState = InitialState

\* A step of pollWallTime on a Monitor that is not closed.
PollStep == wallTimer = "fired" /\ wallTimer' = "armed"

\* A step in which handlePotentialChange ran to its end.
HandleStep == dbPc = "locked" /\ dbPc' = "wait"

\* C30: once a wall-clock jump has been detected the flag stays set until a
\* delta with TimeJumped = TRUE is dispatched, and that dispatch resets it: the
\* flag is cleared by no other step; the poller that finds the flag set leaves
\* a signal pending, its own or the one that was pending already; a round that
\* meets the flag or detects the jump itself dispatches, forced or not and
\* whether or not the state changed; a dispatched delta has TimeJumped = TRUE
\* exactly when a jump was flagged or detected in its round, and leaves no jump
\* flagged, so that a later delta reports a jump only after a new one.
C30_JumpReportedExactlyOnce ==
    /\ [][(timeJumped /\ ~timeJumped') =>
            (DispatchStep /\ lastDelta'.TimeJumped)]_vars
    /\ [][(PollStep /\ timeJumped') => change' # <<>>]_vars
    /\ [][(HandleStep /\ (timeJumped \/ wallGap)) => DispatchStep]_vars
    /\ [][DispatchStep =>
            /\ lastDelta'.TimeJumped = (timeJumped \/ wallGap)
            /\ ~timeJumped' /\ ~wallGap']_vars
    /\ [](timeJumped => wallTimer \in {"armed", "fired"})

\* C30's case: the poller flagged a jump and its forced signal found the
\* channel full; the round under way is not forced, nothing else is pending,
\* its snapshot equals the stored state, and handlePotentialChange holds the
\* mutex with the flag still set and no delta dispatched so far.
C30_Witness ==
    /\ dbPc = "locked"
    /\ timeJumped /\ ~wallGap
    /\ ~forceCallbacks /\ change = <<>>
    /\ StateEqual(ifState, newState)
    /\ nDispatch = 0
    /\ wallTimer = "armed"

\* A Close call that closed the Monitor, or found it closed, has returned.
CloseReturned == closed /\ \E c \in Closers : closePc[c] = "returned"

\* C31: once Close has marked the Monitor closed, pollWallTime neither injects
\* a signal nor re-arms the timer, also when the timer had fired before Close
\* stopped it and pollWallTime ran after Close; no step re-arms the timer of a
\* closed Monitor; and once a Close call has returned the timer is not armed
\* and does not fire.
C31_PollerInertAfterClose ==
    /\ [][(closed /\ wallTimer = "fired" /\ wallTimer' # "fired") =>
            /\ wallTimer' = "expired"
            /\ UNCHANGED <<change, timeJumped, wallGap, owed, dbVars,
                           dispatchVars>>]_vars
    /\ [][(closed /\ wallTimer # "armed") => wallTimer' # "armed"]_vars
    /\ [](CloseReturned => wallTimer # "armed")
    /\ [][CloseReturned => ~(wallTimer # "fired" /\ wallTimer' = "fired")]_vars

\* C31's case: the timer fired with a wall-clock jump outstanding, Close ran
\* and returned before pollWallTime got the mutex, and pollWallTime then ran:
\* the timer is expired, no jump is flagged and no signal is pending.
C31_Witness ==
    /\ CloseReturned
    /\ wallTimer = "expired"
    /\ wallGap /\ ~timeJumped
    /\ change = <<>>
    /\ nDispatch = 0

\* A step that writes a field the mutex guards.  The timer's own firing is the
\* runtime's doing and no write of m.wallTimer.
WritesGuardedField ==
    \/ <<ifState, gwValid, gw, cbs, started, closed, timeJumped, tsIfName>>'
         # <<ifState, gwValid, gw, cbs, started, closed, timeJumped, tsIfName>>
    \/ (wallTimer' # wallTimer /\ wallTimer' # "fired")

\* The step in which debounce calls interfaceStateUncached, which reads
\* m.tsIfName (line 319).
SnapshotStep == dbPc = "snapshot" /\ dbPc' # "snapshot"

\* The step is taken by a goroutine that holds the mutex or takes it.
TakenUnderLock == mu = "free" \/ (mu # "free" /\ mu' = "free")

\* C32: every read and write of a mutex-guarded Monitor field happens while
\* the mutex is held: a step that writes such a field takes the lock or is
\* the holder's, and the step in which debounce reads the Tailscale interface
\* name for its snapshot is taken with debounce holding the lock.
C32_GuardedFieldsOnlyUnderLock ==
    [][/\ WritesGuardedField => TakenUnderLock
       /\ SnapshotStep => mu = "debounce"]_vars

\* C33 as claimed: the mutex is held neither while debounce takes a snapshot
\* nor in the step that dispatches a delta to the callbacks.
C33_LockFreeDuringSnapshotAndDispatch ==
    /\ [](dbPc = "snapshot" => mu # "debounce")
    /\ [][DispatchStep => mu # "debounce"]_vars

\* C33: the mutex is not held by debounce while it takes a snapshot, and no
\* step of a callback touches it; debounce holds it exactly during
\* handlePotentialChange, whose dispatch step publishes the delta and spawns
\* the callback goroutines under the lock and releases it without any of
\* them having started; so while a snapshot is under way with the mutex free
\* every caller can register or unregister.
C33_LockFreeDuringSnapshotAndCallbacks ==
    /\ [](dbPc = "snapshot" => mu # "debounce")
    /\ [](mu = "debounce" <=> dbPc = "locked")
    /\ [][DispatchStep =>
            /\ mu = "debounce" /\ mu' = "free"
            /\ \A t \in tasks' \ tasks : t.st = "spawned"]_vars
    /\ [][(tasks' # tasks /\ ~DispatchStep) => mu' = mu]_vars
    /\ []((dbPc = "snapshot" /\ mu = "free") =>
            \A h \in registrants :
                IF h \in cbs THEN ENABLED Unregister(h)
                ELSE ENABLED RegisterChangeCallback(h))

\* C33's case: a delta was dispatched, its callback still runs, and debounce
\* takes the snapshot of its next round with the mutex free.
C33_Witness ==
    /\ dbPc = "snapshot"
    /\ mu = "free"
    /\ nDispatch = 1
    /\ CallbackRunning
    /\ cbs # {}

\* The probe goroutines whose dial has not ended.
Dialing == { i \in DOMAIN dials : dials[i] = "dialing" }

\* C34: the results channel has room for every candidate's result: its
\* capacity is at least the number of candidates, the results in it and those
\* still to come never exceed it, so the send of every goroutine whose dial
\* ends is possible at once, whether the caller still collects or has
\* returned, and no goroutine with its dial ended is left without having
\* sent.
C34_ProbeTasksNeverBlock ==
    /\ [](probePc # "idle" => Len(candidates) <= resultsCap)
    /\ [](Len(results) + Cardinality(Dialing) <= resultsCap)
    /\ [](\A i \in Dialing : ENABLED DialDone(i))
    /\ [][\A i \in DOMAIN dials :
            (dials[i] = "dialing" /\ dials'[i] = "done") =>
                Len(results') = Len(results) + 1]_vars

\* C34's case: both candidates' goroutines ended their dials after the caller
\* had given up with a timeout and returned, and both results are in the
\* channel.
C34_Witness ==
    /\ probePc = "returned"
    /\ probeRet.err = "timeout"
    /\ out = <<>>
    /\ Len(candidates) = 2
    /\ Dialing = {}
    /\ Len(results) = 2

\* C35: for a nil old and a non-nil new, NewChangeDelta sets
\* DefaultInterfaceChanged to whether new's default route interface is not
\* empty, InterfaceIPsChanged and HasPACOrProxyConfigChanged to true and
\* IsLessExpensive to false, whatever new holds.
C35_NilOldFlags ==
    (called /\ args.old.nil /\ ~args.new.nil) =>
        /\ cd.DefaultInterfaceChanged = (args.new.DefaultRouteInterface # "")
        /\ cd.InterfaceIPsChanged
        /\ cd.HasPACOrProxyConfigChanged
        /\ ~cd.IsLessExpensive

\* C35's case: NewChangeDelta was called with a nil old and a new that has no
\* default route, no proxy configuration and is not expensive: the default
\* interface is reported unchanged, addresses and proxy configuration changed.
C35_Witness ==
    /\ called /\ args.old.nil /\ ~args.new.nil
    /\ args.new.DefaultRouteInterface = ""
    /\ args.new.PAC = "" /\ args.new.HTTPProxy = ""
    /\ ~args.new.IsExpensive
    /\ ~cd.DefaultInterfaceChanged
    /\ cd.InterfaceIPsChanged /\ cd.HasPACOrProxyConfigChanged
    /\ ~cd.IsLessExpensive

\* The routable addresses State st has for the interface called name, as a
\* set; none if st has no such interface.
RoutableSet(st, name) ==
    IF name \in DOMAIN st.Interface
    THEN LET ips == filterRoutableIPs(MapGet(st.InterfaceIPs, name))
         IN  { ips[i] : i \in 1 .. Len(ips) }
    ELSE {}

\* The interface called name has a routable address in State a and is absent
\* from State b or has another set of routable addresses there.
RoutableThereGoneOrOtherHere(a, b, name) ==
    /\ RoutableSet(a, name) # {}
    /\ \/ name \notin DOMAIN b.Interface
       \/ RoutableSet(b, name) # RoutableSet(a, name)

\* The interfaces of either State, but for the Tailscale interface.
OtherInterfaces ==
    (DOMAIN args.old.Interface \cup DOMAIN args.new.Interface) \ {args.tsIfName}

\* The hook is not set or accepts the interface called name as State st has it.
HookAccepts(st, name) ==
    \/ IsInterestingInterface = "nil"
    \/ CallHook(IsInterestingInterface, st.Interface[name],
                filterRoutableIPs(MapGet(st.InterfaceIPs, name)))

\* C36 as claimed: with both States non-nil, InterfaceIPsChanged is true
\* whenever some interface other than the Tailscale one has a routable address
\* on one side and is absent or has a different set of routable addresses on
\* the other, and false when no such interface has a routable address on
\* either side.
C36_RoutableChangeIsReported ==
    (called /\ ~args.old.nil /\ ~args.new.nil) =>
        /\ (\E n \in OtherInterfaces :
                \/ RoutableThereGoneOrOtherHere(args.old, args.new, n)
                \/ RoutableThereGoneOrOtherHere(args.new, args.old, n))
             => cd.InterfaceIPsChanged
        /\ (\A n \in OtherInterfaces :
                RoutableSet(args.old, n) = {} /\ RoutableSet(args.new, n) = {})
             => ~cd.InterfaceIPsChanged

\* C36: the same, for an interface that the IsInterestingInterface hook, if
\* one is set, accepts on the side where it has the routable address.
C36_AcceptedRoutableChangeIsReported ==
    (called /\ ~args.old.nil /\ ~args.new.nil) =>
        /\ (\E n \in OtherInterfaces :
                \/ /\ RoutableThereGoneOrOtherHere(args.old, args.new, n)
                   /\ HookAccepts(args.old, n)
                \/ /\ RoutableThereGoneOrOtherHere(args.new, args.old, n)
                   /\ HookAccepts(args.new, n))
             => cd.InterfaceIPsChanged
        /\ (\A n \in OtherInterfaces :
                RoutableSet(args.old, n) = {} /\ RoutableSet(args.new, n) = {})
             => ~cd.InterfaceIPsChanged

\* C36's case: old has "eth0" with a routable address, new has no "eth0" at
\* all but a Tailscale interface that is the client's own, no hook is set,
\* and the delta reports changed addresses.
C36_Witness ==
    /\ called /\ ~args.old.nil /\ ~args.new.nil
    /\ IsInterestingInterface = "nil"
    /\ args.tsIfName = "ts0"
    /\ RoutableSet(args.old, "eth0") # {}
    /\ "eth0" \notin DOMAIN args.new.Interface
    /\ "ts0" \in DOMAIN args.new.Interface
    /\ cd.InterfaceIPsChanged

\* The two lists isInterestingIntefaceChange hands to prefixesEqual for the
\* interface "eth0": its routable addresses in old and in new.
OldRoutable == filterRoutableIPs(MapGet(args.old.InterfaceIPs, "eth0"))

NewRoutable == filterRoutableIPs(MapGet(args.new.InterfaceIPs, "eth0"))

\* Whether list b is list a in some order.
IsPermutationOf(a, b) ==
    /\ Len(a) = Len(b)
    /\ \/ Len(a) = 0
       \/ \E f \in Permutations(1 .. Len(a)) :
            \A i \in 1 .. Len(a) : b[i] = a[f[i]]

\* The prefixes of list a, as a set.
PrefixSet(a) == { a[i] : i \in 1 .. Len(a) }

\* C37 as claimed: prefixesEqual(a, b) is true for every list a and every
\* permutation b of a, also when a holds prefixes with the same address and
\* different lengths, and false when some prefix is in one list and not in
\* the other.
C37_PrefixesEqualIgnoresOrder ==
    (called /\ ~args.old.nil /\ ~args.new.nil) =>
        /\ IsPermutationOf(OldRoutable, NewRoutable)
             => prefixesEqual(OldRoutable, NewRoutable)
        /\ PrefixSet(OldRoutable) # PrefixSet(NewRoutable)
             => ~prefixesEqual(OldRoutable, NewRoutable)

\* C38: when handlePotentialChange runs for a forced round whose snapshot
\* equals the stored State, with no time jump flagged or detected, it
\* dispatches a delta whose TimeJumped and six computed flags are all false,
\* and it leaves the gateway cache as it was, valid or not.
C38_ForcedEqualRoundReportsNoChange ==
    [][(HandleStep /\ forceCallbacks /\ StateEqual(ifState, newState)
            /\ ~timeJumped /\ ~wallGap) =>
        /\ DispatchStep
        /\ lastDelta'.Old = ifState /\ lastDelta'.New = newState
        /\ ~lastDelta'.TimeJumped
        /\ ~lastDelta'.DefaultInterfaceChanged
        /\ ~lastDelta'.IsLessExpensive
        /\ ~lastDelta'.HasPACOrProxyConfigChanged
        /\ ~lastDelta'.InterfaceIPsChanged
        /\ ~lastDelta'.AvailableProtocolsChanged
        /\ ~lastDelta'.RebindLikelyRequired
        /\ gwValid' = gwValid /\ gw' = gw]_vars

\* C38's case: a delta whose Old and New are equal and that reports no time
\* jump was dispatched, which only a forced round does, while the gateway
\* cache was valid: it still is, and the delta advises no rebind.
C38_Witness ==
    /\ nDispatch = 1
    /\ dbPc = "wait"
    /\ StateEqual(lastDelta.Old, lastDelta.New)
    /\ ~lastDelta.TimeJumped
    /\ ~lastDelta.RebindLikelyRequired
    /\ gwValid
    /\ shouldMonitorTimeJump

\* C39: signals coalesce first-wins.  The channel never holds more than one
\* signal; while one is pending no step replaces it, so a Poll, from a caller
\* or from the pump, leaves a pending forced signal forced; the round that
\* receives the signal takes its force flag, keeps it until
\* handlePotentialChange has run, whatever is sent meanwhile, and a round
\* whose flag is set dispatches.
C39_FirstSignalWins ==
    /\ [](Len(change) <= 1)
    /\ [][(change # <<>> /\ change' # <<>>) => change' = change]_vars
    /\ [][(Poll \/ PumpPoll) => (change = <<TRUE>> => change' = <<TRUE>>)]_vars
    /\ [][RoundStarts =>
            (forceCallbacks' = Head(change) /\ change' = <<>>)]_vars
    /\ [][(dbPc \in {"snapshot", "handle"} /\ dbPc' \in {"handle", "locked"}) =>
            forceCallbacks' = forceCallbacks]_vars
    /\ [][(HandleStep /\ forceCallbacks) => DispatchStep]_vars

\* C39's case: a forced signal is pending while debounce is in its wait and
\* the pump is about to call Poll for an osMon message.
C39_Witness ==
    /\ change = <<TRUE>>
    /\ dbPc = "wait"
    /\ started /\ ~closed
    /\ ENABLED PumpPoll

\* C40: when findInterfaceThatCanReach has returned an interface, it has
\* returned no error, probing ended without error with a result of every
\* candidate, and the interface is a candidate of this call (it passed the
\* filter and the other tests) whose goroutine ended its dial and whose
\* result, the only one it has, reports success.
C40_ReturnedInterfaceWasReached ==
    (probePc = "returned" /\ findRet.iface # NoIface) =>
        /\ findRet.err = "nil"
        /\ probeRet.err = "nil"
        /\ Len(probeRet.res) = Len(candidates)
        /\ \E i \in 1 .. Len(candidates) :
            /\ candidates[i].index = findRet.iface
            /\ IsCandidate(candidates[i], filterf, tsiface)
            /\ dials[i] = "done"
        /\ \E k \in 1 .. Len(probeRet.res) :
            probeRet.res[k].iface.index = findRet.iface
        /\ \A k \in 1 .. Len(probeRet.res) :
            probeRet.res[k].iface.index = findRet.iface =>
                (probeRet.res[k].reachable /\ probeRet.res[k].err = "nil")

\* C40's case: of two candidates one failed its probe and one succeeded; the
\* sorter is set and the hint function returned the Index of the one that
\* failed; the one that succeeded was returned.
C40_Witness ==
    /\ probePc = "returned"
    /\ findRet.iface # NoIface
    /\ Len(candidates) = 2
    /\ sortf = "reverse"
    /\ hintRead.set
    /\ hintRead.idx # findRet.iface
    /\ \E k \in 1 .. Len(probeRet.res) :
        /\ probeRet.res[k].iface.index = hintRead.idx
        /\ ~probeRet.res[k].reachable

====
